---- MODULE Spec2Model ----
(***************************************************************************)
(* A model of the gmail-rule-engine repository: the temporal store of      *)
(* src/src/database.py, the rule validator of src/src/rule_validator.py,   *)
(* the rule engine of src/src/rule_engine.py and the processing run of     *)
(* src/process_rules.py.                                                   *)
(***************************************************************************)
EXTENDS Integers, Sequences, FiniteSets, TLC

VARIABLES
    rows,   \* the emails table: a set of row records, keyed by (email_id, valid_from)
    clock,  \* the value the next datetime.now() returns (naive local wall clock)
    last,   \* the last store call: its argument, injected fault and outcome
    txn,    \* concurrent insert_or_update_email calls, one per connection
    batch,  \* the position of insert_emails_batch in its loop
    run,    \* the position and locals of process_rules.main
    direct  \* a direct call of a validator, engine or action function: arguments and result

vars == <<rows, clock, last, txn, batch, run, direct>>

----------------------------------------------------------------------------
(* Bounds of the model *)

\* datetime.now() takes the values 0 .. MaxClock
MaxClock == 2

\* SQL NULL in the valid_to column
NullTime == -1

----------------------------------------------------------------------------
(* Python and JSON values *)

\* A Python str is a sequence of one-character strings; the label names
INBOX == <<"I", "N", "B", "O", "X">>

UNREAD == <<"U", "N", "R", "E", "A", "D">>

\* A Python value that is None or a list of strings
PyNone == [py |-> "None", items |-> <<>>]

PyList(l) == [py |-> "list", items |-> l]

\* json.dumps of None or of a list of strings: the JSON text
JsonDumps(v) ==
    IF v.py = "None" THEN [text |-> "null", items |-> <<>>]
    ELSE [text |-> "array", items |-> v.items]

\* json.loads of a JSON text
JsonLoads(t) ==
    IF t.text = "null" THEN PyNone ELSE PyList(t.items)

\* set(v): raises TypeError when v is None
PySetRaises(v) == v.py = "None"

PySet(v) == {v.items[i] : i \in 1..Len(v.items)}

----------------------------------------------------------------------------
(* Email snapshots: the dicts given to the store *)

EmailIds == {"e1", "e2"}

\* label lists: storage keeps the order, comparison is by set
LabelLists == {<<>>, <<INBOX>>, <<INBOX, UNREAD>>, <<UNREAD, INBOX>>}

LabelValues == {PyNone} \cup {PyList(l) : l \in LabelLists}

\* strings are sequences of characters
Subjects == {<<"a">>, <<"b">>}

\* received_date: None, a datetime (t), text that reads as a datetime (t), a
\* timezone-aware datetime (t), or text that cannot be read as a date
NoDate == [kind |-> "none", t |-> 0]

DateText(t) == [kind |-> "text", t |-> t]

AwareDate(t) == [kind |-> "aware", t |-> t]

DateAt(t) == [kind |-> "datetime", t |-> t]

InvalidDate == [kind |-> "invalid_text", t |-> 0]

ReceivedDates == {DateAt(1), InvalidDate}

Snapshot(id, from, subject, message, date, labels) ==
    [id |-> id, from |-> from, subject |-> subject, message |-> message,
     received_date |-> date, labels |-> labels]

\* the snapshots given to the store when the claims are about the table
Snapshots ==
    {Snapshot(id, <<"x">>, <<"a">>, <<"m">>, DateAt(1), l) :
        id \in EmailIds, l \in LabelValues}

\* the snapshots given to the store when the claims are about single calls
CallSnapshots ==
    {Snapshot("e1", <<"x">>, s, <<"m">>, DateAt(1), l) :
        s \in Subjects, l \in LabelValues}

\* the faults injected when the claims are about single calls
CallFaults == {"none", "db_error"}

NoEmail == Snapshot("", <<>>, <<>>, <<>>, NoDate, PyNone)

\* what can go wrong in the database during a call
Faults == {"none", "db_error", "no_connection"}

----------------------------------------------------------------------------
(* The emails table *)

\* CONSTRAINT valid_period CHECK (valid_to IS NULL OR valid_to > valid_from)
ValidPeriod(r) == r.valid_to = NullTime \/ r.valid_to > r.valid_from

\* PRIMARY KEY (email_id, valid_from)
PrimaryKeyFree(db, id, t) == ~\E r \in db : r.email_id = id /\ r.valid_from = t

\* SELECT * FROM emails WHERE email_id = %s AND is_current = TRUE
SelectCurrent(db, id) == {r \in db : r.email_id = id /\ r.is_current}

\* a comparison of the label lists instead of the label sets
HasEmailChangedByList(existing, new_data) ==
    IF PySetRaises(JsonLoads(existing.labels)) \/ PySetRaises(new_data.labels)
    THEN "TypeError"
    ELSE IF JsonLoads(existing.labels).items # new_data.labels.items
         THEN "changed" ELSE "same"

\* _has_email_changed: "TypeError", or whether the label sets differ
HasEmailChanged(existing, new_data) ==
    IF PySetRaises(JsonLoads(existing.labels)) \/ PySetRaises(new_data.labels)
    THEN "TypeError"
    ELSE IF PySet(JsonLoads(existing.labels)) # PySet(new_data.labels)
         THEN "changed" ELSE "same"

\* an UPDATE that sets valid_to and leaves is_current as it is
CloseCurrentKeepsFlag(db, id, now) ==
    {IF r.email_id = id /\ r.is_current
     THEN [r EXCEPT !.valid_to = now]
     ELSE r : r \in db}

\* an UPDATE without "AND is_current = TRUE": it closes every version of the id
CloseEveryVersion(db, id, now) ==
    {IF r.email_id = id
     THEN [r EXCEPT !.valid_to = now, !.is_current = FALSE]
     ELSE r : r \in db}

\* UPDATE emails SET valid_to = %s, is_current = FALSE
\*   WHERE email_id = %s AND is_current = TRUE
CloseCurrent(db, id, now) ==
    {IF r.email_id = id /\ r.is_current
     THEN [r EXCEPT !.valid_to = now, !.is_current = FALSE]
     ELSE r : r \in db}

\* whether the UPDATE passes the table's CHECK constraint
CloseCurrentAllowed(db, id, now) ==
    \A r \in CloseCurrent(db, id, now) : ValidPeriod(r)

\* a new version stamped one clock step after the close of the old one
NewVersionStampedLater(email_data, valid_from) ==
    [email_id |-> email_data.id, valid_from |-> valid_from + 1,
     from_email |-> email_data.from, subject |-> email_data.subject,
     message |-> email_data.message, received_date |-> email_data.received_date,
     labels |-> JsonDumps(email_data.labels),
     valid_to |-> NullTime, is_current |-> TRUE]

\* the row _insert_new_version inserts
NewVersion(email_data, valid_from) ==
    [email_id |-> email_data.id, valid_from |-> valid_from,
     from_email |-> email_data.from, subject |-> email_data.subject,
     message |-> email_data.message, received_date |-> email_data.received_date,
     labels |-> JsonDumps(email_data.labels),
     valid_to |-> NullTime, is_current |-> TRUE]

\* whether the INSERT is accepted: the key is free and the timestamp is readable
InsertAllowed(db, email_data, valid_from) ==
    /\ PrimaryKeyFree(db, email_data.id, valid_from)
    /\ email_data.received_date.kind # "invalid_text"

InsertNewVersion(db, email_data, valid_from) ==
    db \cup {NewVersion(email_data, valid_from)}

\* The transaction of insert_or_update_email run alone, given the row fetchone
\* returned (existing, or NoRow): the table after commit, or db after rollback.
NoRow == [email_id |-> "", valid_from |-> NullTime, from_email |-> <<>>,
          subject |-> <<>>, message |-> <<>>, received_date |-> NoDate,
          labels |-> JsonDumps(PyNone), valid_to |-> NullTime, is_current |-> FALSE]

UpsertOutcome(db, existing, email_data, now, fault) ==
    IF fault = "no_connection" THEN "raised"
    ELSE IF fault = "db_error" THEN "rolled_back"
    ELSE IF existing # NoRow
    THEN CASE HasEmailChanged(existing, email_data) = "TypeError" -> "rolled_back"
           [] HasEmailChanged(existing, email_data) = "same" -> "committed"
           [] OTHER ->
                IF /\ CloseCurrentAllowed(db, email_data.id, now)
                   /\ InsertAllowed(CloseCurrent(db, email_data.id, now), email_data, now)
                THEN "committed" ELSE "rolled_back"
    ELSE IF InsertAllowed(db, email_data, now) THEN "committed" ELSE "rolled_back"

\* a connection in autocommit mode: the UPDATE that closed the old row stays
\* when the INSERT after it fails
UpsertRowsAutocommit(db, existing, email_data, now, fault) ==
    IF UpsertOutcome(db, existing, email_data, now, fault) = "committed"
    THEN IF existing # NoRow
         THEN IF HasEmailChanged(existing, email_data) = "same" THEN db
              ELSE InsertNewVersion(CloseCurrent(db, email_data.id, now), email_data, now)
         ELSE InsertNewVersion(db, email_data, now)
    ELSE IF /\ fault = "db_error" /\ existing # NoRow
            /\ HasEmailChanged(existing, email_data) = "changed"
            /\ CloseCurrentAllowed(db, email_data.id, now)
         THEN CloseCurrent(db, email_data.id, now)
         ELSE db

UpsertRows(db, existing, email_data, now, fault) ==
    IF UpsertOutcome(db, existing, email_data, now, fault) # "committed" THEN db
    ELSE IF existing # NoRow
    THEN IF HasEmailChanged(existing, email_data) = "same" THEN db
         ELSE InsertNewVersion(CloseCurrent(db, email_data.id, now), email_data, now)
    ELSE InsertNewVersion(db, email_data, now)

\* the rows fetchone may return for the SELECT of the current row
Fetched(db, id) == IF SelectCurrent(db, id) = {} THEN {NoRow} ELSE SelectCurrent(db, id)

----------------------------------------------------------------------------
(* Queries *)

RowToEmail(r) ==
    [id |-> r.email_id, from |-> r.from_email, subject |-> r.subject,
     message |-> r.message, received_date |-> r.received_date,
     labels |-> JsonLoads(r.labels)]

\* a query without the is_current filter
AllRowsUnfiltered(db) == db

\* get_all_emails, as the set of rows the query selects
AllCurrentRows(db) == {r \in db : r.is_current}

GetAllEmails(db) == {RowToEmail(r) : r \in AllCurrentRows(db)}

\* get_email_by_id: the rows the query may return (LIMIT 1), empty for None
EmailByIdRows(db, id) ==
    {r \in db : r.email_id = id /\ r.is_current /\ r.valid_to = NullTime}

\* get_email_history: the rows of an id (ordered by valid_from)
HistoryRows(db, id) == {r \in db : r.email_id = id}

----------------------------------------------------------------------------
(* The sequential store: calls run one at a time *)

IdleTxn == [p \in {} |-> 0]

\* a number in a result row of PostgreSQL, or NULL
SqlInt(n) == [null |-> FALSE, n |-> n]

SqlNull == [null |-> TRUE, n |-> 0]

\* COUNT(...) is the number of selected values and 0 when there are none
SqlCount(values) == SqlInt(Cardinality(values))

\* SUM(CASE WHEN ... THEN 1 ELSE 0 END) over the table: the number of rows
\* for which the CASE gives 1, and NULL over a table without rows
SqlSumOfCase(db, ones) == IF db = {} THEN SqlNull ELSE SqlInt(Cardinality(ones))

\* count_emails(): SELECT COUNT(DISTINCT email_id) FROM emails WHERE is_current = TRUE
CountEmails(db) == SqlCount({r.email_id : r \in AllCurrentRows(db)})

\* get_stats(): one row of four aggregates over the whole table
GetStats(db) ==
    [unique_emails |-> SqlCount({r.email_id : r \in db}),
     total_versions |-> SqlCount(db),
     current_versions |-> SqlSumOfCase(db, {r \in db : r.is_current}),
     historical_versions |-> SqlSumOfCase(db, {r \in db : ~r.is_current})]

NoCall == [op |-> "init", email |-> NoEmail, fault |-> "none", outcome |-> "none"]

StoreInit ==
    /\ rows = {}
    /\ clock = 0
    /\ last = NoCall

\* last observes the calls in the specifications whose claims are about single
\* calls (observe = TRUE); elsewhere it keeps its value
Observe(observe, call) == last' = IF observe THEN call ELSE last

\* the wall clock changes between calls: it may advance or be set back
Tick(observe) ==
    /\ \E t \in 0..MaxClock : t # clock /\ clock' = t
    /\ Observe(observe, [NoCall EXCEPT !.op = "tick"])
    /\ UNCHANGED <<rows, txn, batch, run, direct>>

\* insert_or_update_email(email_data)
InsertOrUpdateEmail(email_data, fault, observe) ==
    /\ \E existing \in Fetched(rows, email_data.id) :
         /\ rows' = UpsertRows(rows, existing, email_data, clock, fault)
         /\ Observe(observe,
                [op |-> "upsert", email |-> email_data, fault |-> fault,
                 outcome |-> UpsertOutcome(rows, existing, email_data, clock, fault)])
    /\ UNCHANGED <<clock, txn, batch, run, direct>>

Init ==
    /\ StoreInit
    /\ txn = IdleTxn
    /\ batch = 0
    /\ run = 0
    /\ direct = 0

\* The store under any sequence of calls, for several ids
Next ==
    \/ Tick(FALSE)
    \/ \E e \in Snapshots : InsertOrUpdateEmail(e, "none", FALSE)

Spec == Init /\ [][Next]_vars

\* The store under any sequence of observed calls, with faults
NextCalls ==
    \/ Tick(TRUE)
    \/ \E e \in CallSnapshots, f \in CallFaults : InsertOrUpdateEmail(e, f, TRUE)

SpecCalls == Init /\ [][NextCalls]_vars

----------------------------------------------------------------------------
(* Concurrent calls: each insert_or_update_email runs on its own connection,  *)
(* statement by statement, under PostgreSQL's default READ COMMITTED level:   *)
(* a statement sees the rows committed before it starts, an UPDATE waits for  *)
(* the transaction that holds a row it selected and then looks at that row    *)
(* again, an INSERT waits for an uncommitted row with the same key.           *)

Procs == {"p1", "p2"}

\* the snapshots given to the store by concurrent callers
ConcSnapshots ==
    {Snapshot("e1", <<"x">>, <<"a">>, <<"m">>, DateAt(1), PyList(l)) :
        l \in {<<>>, <<INBOX>>}}

Key(r) == <<r.email_id, r.valid_from>>

IdleCall == [pc |-> "idle", email |-> NoEmail, now |-> 0, targets |-> {},
             closed |-> {}, inserted |-> {}]

ConcInit ==
    /\ rows = {}
    /\ clock = 0
    /\ last = NoCall
    /\ txn = [p \in Procs |-> IdleCall]
    /\ batch = 0
    /\ run = 0
    /\ direct = 0

\* the keys of the rows another open transaction has updated and not yet committed
LockedByOthers(p) == UNION {txn[q].closed : q \in Procs \ {p}}

\* the keys another open transaction has inserted and not yet committed
InsertedByOthers(p) ==
    {Key(r) : r \in UNION {txn[q].inserted : q \in Procs \ {p}}}

\* get_connection, conn.cursor, now = datetime.now()
Begin(p, email_data) ==
    /\ txn[p].pc = "idle"
    /\ txn' = [txn EXCEPT ![p] = [IdleCall EXCEPT !.pc = "select",
                                     !.email = email_data, !.now = clock]]
    /\ UNCHANGED <<rows, clock, last, batch, run, direct>>

\* the SELECT of the current row, fetchone and _has_email_changed
Select(p) ==
    /\ txn[p].pc = "select"
    /\ \E existing \in Fetched(rows, txn[p].email.id) :
         txn' = [txn EXCEPT ![p].pc =
                    IF existing = NoRow THEN "insert"
                    ELSE CASE HasEmailChanged(existing, txn[p].email) = "TypeError"
                                -> "rollback"
                           [] HasEmailChanged(existing, txn[p].email) = "same"
                                -> "commit"
                           [] OTHER -> "update"]
    /\ UNCHANGED <<rows, clock, last, batch, run, direct>>

\* the UPDATE starts: it selects the committed current rows of the id
UpdateStart(p) ==
    /\ txn[p].pc = "update"
    /\ txn' = [txn EXCEPT ![p].pc = "update_locking",
                          ![p].targets = {Key(r) : r \in SelectCurrent(rows, txn[p].email.id)}]
    /\ UNCHANGED <<rows, clock, last, batch, run, direct>>

\* the UPDATE gets its row locks, looks at the selected rows again and closes
\* those that are still current; the CHECK constraint may reject it
UpdateApply(p) ==
    /\ txn[p].pc = "update_locking"
    /\ txn[p].targets \cap LockedByOthers(p) = {}
    /\ LET hit == {r \in rows : Key(r) \in txn[p].targets /\ r.is_current}
       IN  txn' = [txn EXCEPT
                     ![p].pc = IF \A r \in hit : ValidPeriod([r EXCEPT !.valid_to = txn[p].now])
                               THEN "insert" ELSE "rollback",
                     ![p].closed = IF \A r \in hit : ValidPeriod([r EXCEPT !.valid_to = txn[p].now])
                                   THEN {Key(r) : r \in hit} ELSE {}]
    /\ UNCHANGED <<rows, clock, last, batch, run, direct>>

\* _insert_new_version: the INSERT, rejected when the key exists
Insert(p) ==
    /\ txn[p].pc = "insert"
    /\ <<txn[p].email.id, txn[p].now>> \notin InsertedByOthers(p)
    /\ txn' = [txn EXCEPT
                 ![p].pc = IF InsertAllowed(rows, txn[p].email, txn[p].now)
                           THEN "commit" ELSE "rollback",
                 ![p].inserted = IF InsertAllowed(rows, txn[p].email, txn[p].now)
                                 THEN {NewVersion(txn[p].email, txn[p].now)} ELSE {}]
    /\ UNCHANGED <<rows, clock, last, batch, run, direct>>

\* conn.commit(): the closed rows and the inserted row become visible
Commit(p) ==
    /\ txn[p].pc = "commit"
    /\ rows' = {IF Key(r) \in txn[p].closed
                THEN [r EXCEPT !.valid_to = txn[p].now, !.is_current = FALSE]
                ELSE r : r \in rows} \cup txn[p].inserted
    /\ txn' = [txn EXCEPT ![p] = IdleCall]
    /\ UNCHANGED <<clock, last, batch, run, direct>>

\* the except branch: conn.rollback()
Rollback(p) ==
    /\ txn[p].pc = "rollback"
    /\ txn' = [txn EXCEPT ![p] = IdleCall]
    /\ UNCHANGED <<rows, clock, last, batch, run, direct>>

\* the wall clock, while calls are in flight
ConcTick ==
    /\ \E t \in 0..MaxClock : t # clock /\ clock' = t
    /\ UNCHANGED <<rows, last, txn, batch, run, direct>>

NextConc ==
    \/ ConcTick
    \/ \E p \in Procs, e \in ConcSnapshots : Begin(p, e)
    \/ \E p \in Procs : Select(p)
    \/ \E p \in Procs : UpdateStart(p)
    \/ \E p \in Procs : UpdateApply(p)
    \/ \E p \in Procs : Insert(p)
    \/ \E p \in Procs : Commit(p)
    \/ \E p \in Procs : Rollback(p)

SpecConc == ConcInit /\ [][NextConc]_vars

----------------------------------------------------------------------------
(* insert_emails_batch: a loop of insert_or_update_email over the list *)

\* the longest list given to insert_emails_batch
MaxBatch == 3

\* the elements of the lists: two valid snapshots and one the database rejects
BatchSnapshots ==
    { Snapshot("e1", <<"x">>, <<"a">>, <<"m">>, DateAt(1), PyList(<<INBOX>>)),
      Snapshot("e2", <<"x">>, <<"a">>, <<"m">>, DateAt(1), PyList(<<INBOX>>)),
      Snapshot("e2", <<>>, <<>>, <<>>, InvalidDate, PyNone) }

BatchLists == UNION {[1..n -> BatchSnapshots] : n \in 1..MaxBatch}

\* pc: "idle", "loop" (inside the for loop), "returned", "raised" (left by an exception)
\* done: the outcome of the call made for each element so far
IdleBatch == [pc |-> "idle", emails |-> <<>>, done |-> <<>>]

BatchInit ==
    /\ rows = {}
    /\ clock = 0
    /\ last = NoCall
    /\ txn = IdleTxn
    /\ batch = IdleBatch
    /\ run = 0
    /\ direct = 0

\* insert_emails_batch(emails) is called
InsertEmailsBatch(emails) ==
    /\ batch.pc = "idle"
    /\ batch' = [pc |-> "loop", emails |-> emails, done |-> <<>>]
    /\ UNCHANGED <<rows, clock, last, txn, run, direct>>

\* one iteration: self.insert_or_update_email(email); an exception that call
\* does not catch leaves the loop and insert_emails_batch
BatchIteration(fault) ==
    /\ batch.pc = "loop"
    /\ LET email == batch.emails[Len(batch.done) + 1]
       IN \E existing \in Fetched(rows, email.id) :
            LET outcome == UpsertOutcome(rows, existing, email, clock, fault)
            IN /\ rows' = UpsertRows(rows, existing, email, clock, fault)
               /\ batch' = [batch EXCEPT
                    !.done = Append(batch.done, outcome),
                    !.pc = IF outcome = "raised" THEN "raised"
                           ELSE IF Len(batch.done) + 1 = Len(batch.emails)
                                THEN "returned" ELSE "loop"]
    /\ UNCHANGED <<clock, last, txn, run, direct>>

\* the caller goes on after the batch call ended
BatchEnd ==
    /\ batch.pc \in {"returned", "raised"}
    /\ batch' = IdleBatch
    /\ UNCHANGED <<rows, clock, last, txn, run, direct>>

NextBatch ==
    \/ Tick(FALSE)
    \/ \E emails \in BatchLists : InsertEmailsBatch(emails)
    \/ \E f \in Faults : BatchIteration(f)
    \/ BatchEnd

SpecBatch == BatchInit /\ [][NextBatch]_vars

----------------------------------------------------------------------------
(* Text: a Python str is a sequence of one-character strings *)

UpperCase == <<"A", "B", "C", "D", "E", "F", "G", "H", "I", "J", "K", "L", "M",
               "N", "O", "P", "Q", "R", "S", "T", "U", "V", "W", "X", "Y", "Z">>

LowerCase == <<"a", "b", "c", "d", "e", "f", "g", "h", "i", "j", "k", "l", "m",
               "n", "o", "p", "q", "r", "s", "t", "u", "v", "w", "x", "y", "z">>

LowerChar(c) ==
    IF \E i \in DOMAIN UpperCase : UpperCase[i] = c
    THEN LowerCase[CHOOSE i \in DOMAIN UpperCase : UpperCase[i] = c]
    ELSE c

UpperChar(c) ==
    IF \E i \in DOMAIN LowerCase : LowerCase[i] = c
    THEN UpperCase[CHOOSE i \in DOMAIN LowerCase : LowerCase[i] = c]
    ELSE c

\* str.lower(), str.upper()
Lower(s) == [i \in DOMAIN s |-> LowerChar(s[i])]

Upper(s) == [i \in DOMAIN s |-> UpperChar(s[i])]

IsSpace(c) == c \in {" ", "\t", "\n", "\r"}

\* str.strip(): without the leading and trailing whitespace
Strip(s) ==
    IF \A i \in DOMAIN s : IsSpace(s[i]) THEN <<>>
    ELSE LET first == CHOOSE i \in DOMAIN s :
                        ~IsSpace(s[i]) /\ \A j \in 1..(i - 1) : IsSpace(s[j])
             final == CHOOSE i \in DOMAIN s :
                        ~IsSpace(s[i]) /\ \A j \in (i + 1)..Len(s) : IsSpace(s[j])
         IN  SubSeq(s, first, final)

\* a in b, for two strs
IsSubstring(a, b) ==
    \E i \in 0..(Len(b) - Len(a)) : SubSeq(b, i + 1, i + Len(a)) = a

Digits == <<"0", "1", "2", "3", "4", "5", "6", "7", "8", "9">>

IsDigit(c) == \E i \in DOMAIN Digits : Digits[i] = c

DigitValue(c) == (CHOOSE i \in DOMAIN Digits : Digits[i] = c) - 1

RECURSIVE DigitsValue(_)
DigitsValue(s) ==
    IF s = <<>> THEN 0
    ELSE 10 * DigitsValue(SubSeq(s, 1, Len(s) - 1)) + DigitValue(s[Len(s)])

\* int(s) for a str: surrounding whitespace, an optional sign, decimal
\* digits; ok = FALSE stands for ValueError
ParseInt(s) ==
    LET body == Strip(s)
        signed == body # <<>> /\ Head(body) \in {"-", "+"}
        digits == IF signed THEN Tail(body) ELSE body
    IN  IF digits = <<>> \/ \E i \in DOMAIN digits : ~IsDigit(digits[i])
        THEN [ok |-> FALSE, n |-> 0]
        ELSE [ok |-> TRUE,
              n |-> IF signed /\ Head(body) = "-"
                    THEN 0 - DigitsValue(digits) ELSE DigitsValue(digits)]

RECURSIVE Concat(_)
\* the concatenation of a sequence of sequences
Concat(ss) == IF ss = <<>> THEN <<>> ELSE Head(ss) \o Concat(Tail(ss))

----------------------------------------------------------------------------
(* The rule-set document: the JSON value of the rules file.  A key of an    *)
(* object is present (has) with a value, or missing.                         *)

\* a key whose value is compared as it is: a keyword
Word(w) == [has |-> TRUE, v |-> w]

NoWord == [has |-> FALSE, v |-> ""]

\* a key whose value is text
Text(s) == [has |-> TRUE, v |-> s]

NoText == [has |-> FALSE, v |-> <<>>]

\* a key whose value should be an array
Array(items) == [tag |-> "list", items |-> items]

NotAnArray == [tag |-> "not_list", items |-> <<>>]

NoArray == [tag |-> "absent", items |-> <<>>]

Condition(field, predicate, value, unit) ==
    [field |-> field, predicate |-> predicate, value |-> value, unit |-> unit]

Action(type, destination) == [type |-> type, destination |-> destination]

Rule(name, predicate, conditions, actions) ==
    [name |-> name, predicate |-> predicate, conditions |-> conditions,
     actions |-> actions]

\* kind: "file_not_found", "invalid_json", "not_object", "no_rules_key",
\* "rules_empty_sized" ('rules' is "" or {}), "rules_sized" (a non-empty string
\* or object), "rules_unsized" (a number, true, false or null), "rules_array"
Document(kind, rules) == [kind |-> kind, rules |-> rules]

----------------------------------------------------------------------------
(* RuleValidator *)

SUPPORTED_STRING_FIELDS == {"from", "subject", "message"}

SUPPORTED_FIELDS == SUPPORTED_STRING_FIELDS \cup {"received_date"}

STRING_PREDICATES == {"contains", "does_not_contain", "equals", "does_not_equal"}

DATE_PREDICATES == {"less_than", "greater_than"}

RULE_PREDICATES == {<<"a", "l", "l">>, <<"a", "n", "y">>}

SUPPORTED_ACTIONS == {"mark_as_read", "mark_as_unread", "move_message"}

VALID_DATE_UNITS == {"days", "months"}

MAX_CONDITIONS == 10

MAX_ACTIONS == 5

MAX_RULES == 100

\* an entry of validator.errors or validator.warnings
Err(code, rule, item) == [code |-> code, rule |-> rule, item |-> item]

\* a _validate_condition that takes any number as a date value
ValidateConditionAnyNumber(condition, rule, idx) ==
    IF ~condition.field.has THEN <<Err("condition_missing_field", rule, idx)>>
    ELSE IF ~condition.predicate.has THEN <<Err("condition_missing_predicate", rule, idx)>>
    ELSE IF ~condition.value.has THEN <<Err("condition_missing_value", rule, idx)>>
    ELSE IF condition.field.v \notin SUPPORTED_FIELDS
    THEN <<Err("invalid_field", rule, idx)>>
    ELSE IF condition.field.v \in SUPPORTED_STRING_FIELDS
    THEN IF condition.predicate.v \notin STRING_PREDICATES
         THEN <<Err("invalid_string_predicate", rule, idx)>> ELSE <<>>
    ELSE (IF condition.predicate.v \notin DATE_PREDICATES
          THEN <<Err("invalid_date_predicate", rule, idx)>> ELSE <<>>)
         \o (IF ~condition.unit.has THEN <<Err("date_missing_unit", rule, idx)>>
             ELSE IF condition.unit.v \notin VALID_DATE_UNITS
                  THEN <<Err("invalid_unit", rule, idx)>> ELSE <<>>)
         \o (IF ~ParseInt(condition.value.v).ok
             THEN <<Err("date_value_not_numeric", rule, idx)>> ELSE <<>>)

\* _validate_condition: the errors it adds
ValidateCondition(condition, rule, idx) ==
    IF ~condition.field.has THEN <<Err("condition_missing_field", rule, idx)>>
    ELSE IF ~condition.predicate.has THEN <<Err("condition_missing_predicate", rule, idx)>>
    ELSE IF ~condition.value.has THEN <<Err("condition_missing_value", rule, idx)>>
    ELSE IF condition.field.v \notin SUPPORTED_FIELDS
    THEN <<Err("invalid_field", rule, idx)>>
    ELSE IF condition.field.v \in SUPPORTED_STRING_FIELDS
    THEN IF condition.predicate.v \notin STRING_PREDICATES
         THEN <<Err("invalid_string_predicate", rule, idx)>> ELSE <<>>
    ELSE (IF condition.predicate.v \notin DATE_PREDICATES
          THEN <<Err("invalid_date_predicate", rule, idx)>> ELSE <<>>)
         \o (IF ~condition.unit.has THEN <<Err("date_missing_unit", rule, idx)>>
             ELSE IF condition.unit.v \notin VALID_DATE_UNITS
                  THEN <<Err("invalid_unit", rule, idx)>> ELSE <<>>)
         \o (IF ~ParseInt(condition.value.v).ok
             THEN <<Err("date_value_not_numeric", rule, idx)>>
             ELSE IF ParseInt(condition.value.v).n <= 0
                  THEN <<Err("date_value_not_positive", rule, idx)>> ELSE <<>>)

\* _validate_action: the errors it adds
ValidateAction(action, rule, idx) ==
    IF ~action.type.has THEN <<Err("action_missing_type", rule, idx)>>
    ELSE IF action.type.v \notin SUPPORTED_ACTIONS
    THEN <<Err("invalid_action", rule, idx)>>
    ELSE IF action.type.v = "move_message"
    THEN IF ~action.destination.has
         THEN <<Err("move_missing_destination", rule, idx)>>
         ELSE IF action.destination.v = <<>> \/ Len(Strip(action.destination.v)) = 0
              THEN <<Err("move_empty_destination", rule, idx)>> ELSE <<>>
    ELSE <<>>

\* action_types = [a.get('type') for a in actions]
ActionTypes(actions) == [i \in DOMAIN actions |-> actions[i].type]

\* action_types.count(type)
CountType(actions, type) ==
    Cardinality({i \in DOMAIN actions : ActionTypes(actions)[i] = Word(type)})

\* a conflict check that never reports read together with unread
CheckActionConflictsNone(actions, rule) == <<>>

\* _check_action_conflicts: the errors it adds
CheckActionConflicts(actions, rule) ==
    IF CountType(actions, "mark_as_read") > 0 /\ CountType(actions, "mark_as_unread") > 0
    THEN <<Err("read_unread_conflict", rule, 0)>> ELSE <<>>

\* _check_action_conflicts: the warnings it adds
ActionWarnings(actions, rule) ==
    (IF CountType(actions, "mark_as_read") > 1
     THEN <<Err("duplicate_mark_as_read", rule, 0)>> ELSE <<>>)
    \o (IF CountType(actions, "mark_as_unread") > 1
        THEN <<Err("duplicate_mark_as_unread", rule, 0)>> ELSE <<>>)
    \o (LET moves == {i \in DOMAIN actions : actions[i].type = Word("move_message")}
        IN IF Cardinality(moves) > 1
              /\ Cardinality({actions[i].destination : i \in moves}) > 1
           THEN <<Err("multiple_moves", rule, 0)>> ELSE <<>>)

\* _validate_rule: the errors it adds
ValidateRule(rule, idx) ==
    (IF ~rule.name.has THEN <<Err("rule_missing_name", idx, 0)>> ELSE <<>>)
    \o (IF ~rule.predicate.has THEN <<Err("rule_missing_predicate", idx, 0)>> ELSE <<>>)
    \o (IF rule.conditions.tag = "absent"
        THEN <<Err("rule_missing_conditions", idx, 0)>> ELSE <<>>)
    \o (IF rule.actions.tag = "absent"
        THEN <<Err("rule_missing_actions", idx, 0)>> ELSE <<>>)
    \o (IF rule.predicate.has /\ Lower(rule.predicate.v) \notin RULE_PREDICATES
        THEN <<Err("invalid_rule_predicate", idx, 0)>> ELSE <<>>)
    \o (IF rule.conditions.tag = "absent" THEN <<>>
        ELSE IF rule.conditions.tag = "not_list" \/ Len(rule.conditions.items) = 0
        THEN <<Err("no_conditions", idx, 0)>>
        ELSE IF Len(rule.conditions.items) > MAX_CONDITIONS
        THEN <<Err("too_many_conditions", idx, 0)>>
        ELSE Concat([i \in DOMAIN rule.conditions.items |->
                        ValidateCondition(rule.conditions.items[i], idx, i)]))
    \o (IF rule.actions.tag = "absent" THEN <<>>
        ELSE IF rule.actions.tag = "not_list" \/ Len(rule.actions.items) = 0
        THEN <<Err("no_actions", idx, 0)>>
        ELSE IF Len(rule.actions.items) > MAX_ACTIONS
        THEN <<Err("too_many_actions", idx, 0)>>
        ELSE Concat([i \in DOMAIN rule.actions.items |->
                        ValidateAction(rule.actions.items[i], idx, i)])
             \o CheckActionConflicts(rule.actions.items, idx))

\* _validate_rule: the warnings it adds
RuleWarnings(rule, idx) ==
    IF /\ rule.actions.tag = "list"
       /\ Len(rule.actions.items) \in 1..MAX_ACTIONS
    THEN ActionWarnings(rule.actions.items, idx) ELSE <<>>

\* validate_rules_file: errors and warnings as left in the validator, and how
\* the call ends: "false" and "true" are returned, "raise" is RuleValidationError
ValidateRulesFile(doc) ==
    CASE doc.kind = "file_not_found" ->
            [result |-> "false", errors |-> <<Err("file_not_found", 0, 0)>>, warnings |-> <<>>]
      [] doc.kind = "invalid_json" ->
            [result |-> "false", errors |-> <<Err("invalid_json", 0, 0)>>, warnings |-> <<>>]
      [] doc.kind \in {"not_object", "no_rules_key"} ->
            [result |-> "false", errors |-> <<Err("no_rules_array", 0, 0)>>, warnings |-> <<>>]
      [] doc.kind \in {"rules_empty_sized", "rules_sized", "rules_unsized"} ->
            [result |-> "false", errors |-> <<Err("rules_not_array", 0, 0)>>, warnings |-> <<>>]
      [] OTHER ->
            IF Len(doc.rules) = 0
            THEN [result |-> "true", errors |-> <<>>,
                  warnings |-> <<Err("no_rules_defined", 0, 0)>>]
            ELSE LET errors ==
                       (IF Len(doc.rules) > MAX_RULES
                        THEN <<Err("too_many_rules", 0, 0)>> ELSE <<>>)
                       \o Concat([i \in DOMAIN doc.rules |-> ValidateRule(doc.rules[i], i)])
                     warnings ==
                       Concat([i \in DOMAIN doc.rules |-> RuleWarnings(doc.rules[i], i)])
                 IN [result |-> IF errors # <<>> THEN "raise" ELSE "true",
                     errors |-> errors, warnings |-> warnings]

----------------------------------------------------------------------------
(* RuleEngine.  Time is counted in days: a datetime is a day number.         *)

\* load_rules: the value of self.rules; every exception gives []
LoadRules(doc) ==
    IF doc.kind \in {"file_not_found", "invalid_json", "not_object", "no_rules_key"}
    THEN [kind |-> "rules_array", rules |-> <<>>]
    ELSE doc

\* a Python value that is a str
PyStr(s) == [py |-> "str", items |-> s]

\* a comparison that does not reject the empty condition value
EvaluateStringConditionUnguarded(email_value, predicate, condition_value) ==
    LET value == Strip(Lower(email_value))
        wanted == Strip(Lower(condition_value))
    IN  CASE predicate = "contains" -> IsSubstring(wanted, value)
          [] predicate = "does_not_contain" -> ~IsSubstring(wanted, value)
          [] predicate = "equals" -> value = wanted
          [] predicate = "does_not_equal" -> value # wanted
          [] OTHER -> FALSE

\* a comparison of the stripped values as they are written
EvaluateStringConditionCaseSensitive(email_value, predicate, condition_value) ==
    LET value == Strip(email_value)
        wanted == Strip(condition_value)
    IN  IF wanted = <<>> THEN FALSE
        ELSE CASE predicate = "contains" -> IsSubstring(wanted, value)
               [] predicate = "does_not_contain" -> ~IsSubstring(wanted, value)
               [] predicate = "equals" -> value = wanted
               [] predicate = "does_not_equal" -> value # wanted
               [] OTHER -> FALSE

\* _evaluate_string_condition, for two strs
EvaluateStringCondition(email_value, predicate, condition_value) ==
    LET value == Strip(Lower(email_value))
        wanted == Strip(Lower(condition_value))
    IN  IF wanted = <<>> THEN FALSE
        ELSE CASE predicate = "contains" -> IsSubstring(wanted, value)
               [] predicate = "does_not_contain" -> ~IsSubstring(wanted, value)
               [] predicate = "equals" -> value = wanted
               [] predicate = "does_not_equal" -> value # wanted
               [] OTHER -> FALSE

\* _evaluate_string_condition, for values that are None or a str
EvaluateStringConditionPy(email_value, predicate, condition_value) ==
    IF condition_value.py = "None" THEN FALSE
    ELSE EvaluateStringCondition(IF email_value.py = "None" THEN <<>> ELSE email_value.items,
                                 predicate, condition_value.items)

\* date.today().toordinal() on the day the clock counts from: the days
\* between datetime.min (ordinal 1) and day 0 of the clock
Today == 739926

\* a datetime exists between datetime.min (0001-01-01, ordinal 1) and
\* datetime.max (9999-12-31, ordinal 3652059): arithmetic that leaves the
\* range raises OverflowError
\* (timedelta(days=n) has a range of its own, 999999999 days either way, which
\* is wider: a timedelta out of range leaves the datetime range as well)
DatetimeInRange(day) == Today + day \in 1..3652059

\* the length D in days of "value unit": N days, or 30 * N days for months
DeltaDays(value, unit) ==
    IF unit = "days" THEN ParseInt(value).n ELSE ParseInt(value).n * 30

\* a date comparison with the two predicates exchanged
EvaluateDateConditionExchanged(email_date, predicate, value, unit, now) ==
    IF email_date.kind \in {"none", "invalid_text"} THEN FALSE
    ELSE IF ~ParseInt(value).ok THEN FALSE
    ELSE IF unit \notin {"days", "months"} THEN FALSE
    ELSE IF ~DatetimeInRange(now - DeltaDays(value, unit)) THEN FALSE
    ELSE LET threshold == now - DeltaDays(value, unit)
         IN CASE predicate = "less_than" -> email_date.t < threshold
              [] predicate = "greater_than" -> email_date.t > threshold
              [] OTHER -> FALSE

\* _evaluate_date_condition: a date that is None or "" gives False, and so does
\* every exception (date_parser.parse, int, timedelta, datetime - timedelta)
EvaluateDateCondition(email_date, predicate, value, unit, now) ==
    IF email_date.kind \in {"none", "invalid_text"} THEN FALSE
    ELSE IF ~ParseInt(value).ok THEN FALSE
    ELSE IF unit \notin {"days", "months"} THEN FALSE
    ELSE IF ~DatetimeInRange(now - DeltaDays(value, unit)) THEN FALSE
    ELSE LET threshold == now - DeltaDays(value, unit)
         IN CASE predicate = "less_than" -> email_date.t > threshold
              [] predicate = "greater_than" -> email_date.t < threshold
              [] OTHER -> FALSE

\* email.get(field, "") for a string field
EmailField(email, field) == IF field \in DOMAIN email THEN email[field] ELSE <<>>

\* email.get("received_date", ""): the empty string is as false as None
EmailDate(email) ==
    IF "received_date" \in DOMAIN email THEN email.received_date ELSE NoDate

\* evaluate_condition
EvaluateCondition(condition, email, now) ==
    IF condition.field.v = "received_date"
    THEN EvaluateDateCondition(EmailDate(email), condition.predicate.v,
                               condition.value.v,
                               IF condition.unit.has THEN condition.unit.v ELSE "days",
                               now)
    ELSE EvaluateStringCondition(EmailField(email, condition.field.v),
                                 condition.predicate.v, condition.value.v)

\* an evaluate_rule that compares the predicate as written
EvaluateRuleCaseSensitive(rule, email, now) ==
    LET predicate == rule.predicate.v
        results == [i \in DOMAIN rule.conditions.items |->
                        EvaluateCondition(rule.conditions.items[i], email, now)]
    IN  IF predicate = <<"a", "l", "l">> THEN \A i \in DOMAIN results : results[i]
        ELSE IF predicate = <<"a", "n", "y">> THEN \E i \in DOMAIN results : results[i]
        ELSE FALSE

\* evaluate_rule
EvaluateRule(rule, email, now) ==
    LET predicate == Lower(rule.predicate.v)
        results == [i \in DOMAIN rule.conditions.items |->
                        EvaluateCondition(rule.conditions.items[i], email, now)]
    IN  IF predicate = <<"a", "l", "l">> THEN \A i \in DOMAIN results : results[i]
        ELSE IF predicate = <<"a", "n", "y">> THEN \E i \in DOMAIN results : results[i]
        ELSE FALSE

RECURSIVE Deduplicated(_)
Deduplicated(s) ==
    IF s = <<>> THEN <<>>
    ELSE LET front == Deduplicated(SubSeq(s, 1, Len(s) - 1))
         IN IF \E i \in DOMAIN front : front[i] = s[Len(s)]
            THEN front ELSE Append(front, s[Len(s)])

\* an engine that remembers the evaluation before: it returns no actions when
\* asked again
EvaluateRulesOnce(rules, email, now) ==
    IF direct.op = "evaluate_rules" THEN <<>>
    ELSE Concat([i \in DOMAIN rules |->
              IF EvaluateRule(rules[i], email, now) THEN rules[i].actions.items ELSE <<>>])

\* an evaluate_rules that returns each action once
EvaluateRulesDeduplicated(rules, email, now) ==
    Deduplicated(Concat([i \in DOMAIN rules |->
              IF EvaluateRule(rules[i], email, now) THEN rules[i].actions.items ELSE <<>>]))

\* evaluate_rules: the actions of the matching rules, in rule order
EvaluateRules(rules, email, now) ==
    Concat([i \in DOMAIN rules |->
              IF EvaluateRule(rules[i], email, now) THEN rules[i].actions.items ELSE <<>>])

----------------------------------------------------------------------------
(* process_rules.execute_action *)

STARRED == <<"S", "T", "A", "R", "R", "E", "D">>

IMPORTANT == <<"I", "M", "P", "O", "R", "T", "A", "N", "T">>

CATEGORY_PERSONAL == <<"C", "A", "T", "E", "G", "O", "R", "Y", "_", "P", "E", "R", "S", "O", "N", "A", "L">>

CATEGORY_SOCIAL == <<"C", "A", "T", "E", "G", "O", "R", "Y", "_", "S", "O", "C", "I", "A", "L">>

CATEGORY_PROMOTIONS == <<"C", "A", "T", "E", "G", "O", "R", "Y", "_", "P", "R", "O", "M", "O", "T", "I", "O", "N", "S">>

CATEGORY_UPDATES == <<"C", "A", "T", "E", "G", "O", "R", "Y", "_", "U", "P", "D", "A", "T", "E", "S">>

CATEGORY_FORUMS == <<"C", "A", "T", "E", "G", "O", "R", "Y", "_", "F", "O", "R", "U", "M", "S">>

system_labels == {UNREAD, STARRED, IMPORTANT, CATEGORY_PERSONAL, CATEGORY_SOCIAL,
                  CATEGORY_PROMOTIONS, CATEGORY_UPDATES, CATEGORY_FORUMS}

\* the destinations execute_action turns to upper case
UpperCasedDestinations == {<<"i", "n", "b", "o", "x">>, <<"t", "r", "a", "s", "h">>, <<"s", "p", "a", "m">>, <<"s", "e", "n", "t">>, <<"d", "r", "a", "f", "t">>}

Processed == <<"P", "r", "o", "c", "e", "s", "s", "e", "d">>

\* the destination execute_action passes to gmail.move_message
Destination(action) ==
    LET destination == IF action.destination.has THEN action.destination.v ELSE Processed
    IN  IF Lower(destination) \in UpperCasedDestinations
        THEN Upper(destination) ELSE destination

\* [l for l in labels if test(l)]
RECURSIVE Filter(_, _)
Filter(labels, keep) ==
    IF labels = <<>> THEN <<>>
    ELSE (IF Head(labels) \in keep THEN <<Head(labels)>> ELSE <<>>) \o Filter(Tail(labels), keep)

Elements(labels) == {labels[i] : i \in DOMAIN labels}

\* the call execute_action makes to the Gmail client; op "none" when the
\* action type is unknown
GmailCall(email, action) ==
    CASE action.type.v \in {"mark_as_read", "mark_as_unread"} ->
            [op |-> action.type.v, id |-> email.id, destination |-> <<>>]
      [] action.type.v = "move_message" ->
            [op |-> "move_message", id |-> email.id, destination |-> Destination(action)]
      [] OTHER -> [op |-> "none", id |-> email.id, destination |-> <<>>]

\* execute_action, given what the Gmail client returns (success): the email
\* dict afterwards and the value returned.  With labels None the update of the
\* dict raises TypeError, which execute_action turns into False.
ExecuteAction(email, action, success) ==
    IF GmailCall(email, action).op = "none" \/ ~success
    THEN [email |-> email, result |-> FALSE]
    ELSE IF email.labels.py = "None" THEN [email |-> email, result |-> FALSE]
    ELSE LET labels == email.labels.items
             after ==
               CASE action.type.v = "mark_as_read" -> Filter(labels, Elements(labels) \ {UNREAD})
                 [] action.type.v = "mark_as_unread" ->
                      IF UNREAD \in Elements(labels) THEN labels ELSE Append(labels, UNREAD)
                 [] OTHER -> Append(Filter(labels, system_labels), Destination(action))
         IN [email |-> [email EXCEPT !.labels = PyList(after)], result |-> TRUE]

\* for action in actions: execute_action(gmail, email, action): the email dict
\* after the loop
RECURSIVE ExecuteActions(_, _, _)
ExecuteActions(email, actions, success) ==
    IF actions = <<>> THEN email
    ELSE ExecuteActions(ExecuteAction(email, Head(actions), Head(success)).email,
                        Tail(actions), Tail(success))

\* action_count: the executions that returned True
RECURSIVE CountSucceeded(_, _, _)
CountSucceeded(email, actions, success) ==
    IF actions = <<>> THEN 0
    ELSE (IF ExecuteAction(email, Head(actions), Head(success)).result THEN 1 ELSE 0)
         + CountSucceeded(ExecuteAction(email, Head(actions), Head(success)).email,
                          Tail(actions), Tail(success))

\* the calls made to the Gmail client by the loop, in order
RECURSIVE GmailCalls(_, _)
GmailCalls(email, actions) ==
    IF actions = <<>> THEN <<>>
    ELSE (IF GmailCall(email, Head(actions)).op = "none" THEN <<>>
          ELSE <<GmailCall(email, Head(actions))>>) \o GmailCalls(email, Tail(actions))

Occurrences(l, x) == Cardinality({i \in DOMAIN l : l[i] = x})

\* sorted(a) != sorted(b) for two lists of strings
SortedDiffer(a, b) ==
    \E x \in Elements(a) \cup Elements(b) : Occurrences(a, x) # Occurrences(b, x)

----------------------------------------------------------------------------
(* process_rules.main: one processing run *)

\* the rule sets of the runs
SubjectContainsA == Condition(Word("subject"), Word("contains"), Text(<<"A">>), NoWord)

FromEqualsX == Condition(Word("from"), Word("equals"), Text(<<" ", "x">>), NoWord)

ReceivedLastDay ==
    Condition(Word("received_date"), Word("less_than"), Text(<<"1">>), Word("days"))

MarkAsRead == Action(Word("mark_as_read"), NoText)

MarkAsUnread == Action(Word("mark_as_unread"), NoText)

MoveTo(destination) == Action(Word("move_message"), Text(destination))

ReadRule ==
    Rule(Word("read"), Text(<<"A", "l", "l">>), Array(<<SubjectContainsA>>),
         Array(<<MarkAsRead>>))

MoveRule ==
    Rule(Word("move"), Text(<<"a", "n", "y">>), Array(<<FromEqualsX, ReceivedLastDay>>),
         Array(<<MoveTo(<<"T", "r", "a", "s", "h">>), MarkAsUnread>>))

ConflictRule ==
    Rule(Word("conflict"), Text(<<"a", "l", "l">>), Array(<<SubjectContainsA>>),
         Array(<<MarkAsRead, MarkAsUnread>>))

ConflictManyRule ==
    Rule(Word("conflict_many"), Text(<<"a", "l", "l">>), Array(<<SubjectContainsA>>),
         Array(<<MarkAsRead, MarkAsUnread, MarkAsRead, MarkAsRead, MarkAsRead, MarkAsRead>>))

BadRule ==
    Rule(NoWord, Text(<<"s", "o", "m", "e">>),
         Array(<<Condition(Word("sender"), Word("contains"), Text(<<"a">>), NoWord),
                 Condition(Word("received_date"), Word("equals"), Text(<<"0">>), NoWord)>>),
         Array(<<Action(Word("archive"), NoText), MoveTo(<<" ">>)>>))

TooManyRules == [i \in 1..(MAX_RULES + 1) |-> ReadRule]

Docs ==
    {Document(kind, <<>>) :
        kind \in {"file_not_found", "invalid_json", "not_object", "no_rules_key",
                  "rules_empty_sized", "rules_sized", "rules_unsized"}}
    \cup {Document("rules_array", rules) :
            rules \in {<<>>, <<ReadRule>>, <<MoveRule>>, <<ReadRule, MoveRule>>,
                       <<ConflictRule>>, <<ReadRule, ConflictRule>>,
                       <<ConflictManyRule>>, <<BadRule>>, TooManyRules}}

\* the emails fetch_emails.py stored before the run
RunSnapshots ==
    { Snapshot("e1", <<"x">>, <<"a">>, <<"m">>, DateAt(1), PyList(<<INBOX, UNREAD>>)),
      Snapshot("e2", <<"X", " ">>, <<"b">>, <<"m">>, DateAt(0), PyList(<<INBOX>>)),
      Snapshot("e3", <<"y">>, <<"b", "a">>, <<"m">>, NoDate, PyNone) }

RunTables == {{NewVersion(e, 0) : e \in S} : S \in SUBSET RunSnapshots}

\* received_date DESC, as PostgreSQL orders: NULL before every timestamp
DateOrder(d) == IF d.kind = "none" THEN MaxClock + 1 ELSE d.t

Orderings(S) ==
    {s \in [1..Cardinality(S) -> S] : \A i, j \in DOMAIN s : i # j => s[i] # s[j]}

\* get_all_emails: the lists the query may return (rows with equal dates come
\* in any order)
GetAllEmailsLists(db) ==
    {[i \in DOMAIN s |-> RowToEmail(s[i])] :
        s \in {p \in Orderings(AllCurrentRows(db)) :
                 \A i, j \in DOMAIN p :
                    i < j => DateOrder(p[i].received_date) >= DateOrder(p[j].received_date)}}

\* self.rules before the engine is constructed
NoRules == [kind |-> "none", rules |-> <<>>]

\* pc: "start", "exit" (sys.exit(1)), "load", "loop", "update", "done" (main
\* returned), "crashed" (main left by an exception)
\* engine: "none" or "constructed"; rules: self.rules; errors: validator.errors
\* emails, index: the list of step 2 and the position of the for loop of step 3
\* evaluated: the calls of evaluate_rules; calls: the calls to the Gmail client
\* writes: the calls of insert_or_update_email
StartRun(doc) ==
    [pc |-> "start", doc |-> doc, engine |-> "none", rules |-> NoRules, errors |-> <<>>,
     emails |-> <<>>, index |-> 0, evaluated |-> 0, calls |-> <<>>,
     processed_count |-> 0, action_count |-> 0, emails_to_update |-> <<>>,
     writes |-> 0]

RunInit ==
    /\ rows \in RunTables
    /\ clock = 0
    /\ last = NoCall
    /\ txn = IdleTxn
    /\ batch = 0
    /\ run \in {StartRun(doc) : doc \in Docs}
    /\ direct = 0

\* engine = RuleEngine(rules_file), and main's except clauses around it:
\* _validate_rules lets RuleValidationError through and ignores what
\* validate_rules_file returns; len(self.rules) raises TypeError for a value
\* without a length
ConstructRuleEngine ==
    /\ run.pc = "start"
    /\ LET validation == ValidateRulesFile(run.doc)
           loaded == LoadRules(run.doc)
       IN  run' = IF validation.result = "raise" \/ loaded.kind = "rules_unsized"
                  THEN [run EXCEPT !.pc = "exit", !.errors = validation.errors]
                  ELSE [run EXCEPT !.pc = "load", !.errors = validation.errors,
                                   !.engine = "constructed",
                                   !.rules = [kind |-> loaded.kind, rules |-> loaded.rules]]
    /\ UNCHANGED <<rows, clock, last, txn, batch, direct>>

\* emails = db.get_all_emails(); if not emails: return
LoadEmails(fault) ==
    /\ run.pc = "load"
    /\ \E emails \in IF fault = "none" THEN GetAllEmailsLists(rows) ELSE {<<>>} :
         run' = [run EXCEPT !.emails = emails, !.index = 1,
                            !.pc = IF emails = <<>> THEN "done" ELSE "loop"]
    /\ UNCHANGED <<rows, clock, last, txn, batch, direct>>

\* where main goes after the iteration for emails[index]
AfterIteration(index, emails, to_update) ==
    IF index < Len(emails) THEN "loop"
    ELSE IF to_update # <<>> THEN "update" ELSE "done"

\* one iteration of the for loop of step 3
ProcessEmail ==
    /\ run.pc = "loop"
    /\ LET email == run.emails[run.index]
           original_labels == IF email.labels.py = "None" THEN <<>> ELSE email.labels.items
       IN  IF run.rules.kind = "rules_sized"
           THEN \* evaluate_rules iterates over a str or a dict: rule["predicate"] raises
                run' = [run EXCEPT !.pc = "crashed", !.evaluated = @ + 1]
           ELSE LET actions == IF run.rules.kind = "rules_array"
                               THEN EvaluateRules(run.rules.rules, email, clock) ELSE <<>>
                IN \E success \in [DOMAIN actions -> BOOLEAN] :
                     LET after == ExecuteActions(email, actions, success)
                         changed == /\ actions # <<>>
                                    /\ after.labels.py # "None"
                                    /\ SortedDiffer(original_labels, after.labels.items)
                         to_update == IF changed THEN Append(run.emails_to_update, after)
                                      ELSE run.emails_to_update
                     IN run' = [run EXCEPT
                          !.evaluated = @ + 1,
                          !.calls = @ \o GmailCalls(email, actions),
                          !.emails = [@ EXCEPT ![run.index] = after],
                          !.processed_count = IF actions # <<>> THEN @ + 1 ELSE @,
                          !.action_count = @ + CountSucceeded(email, actions, success),
                          !.emails_to_update = to_update,
                          !.index = IF run.index < Len(run.emails) THEN @ + 1 ELSE @,
                          !.pc = IF actions # <<>> /\ after.labels.py = "None"
                                 THEN "crashed"  \* sorted(None) raises TypeError
                                 ELSE AfterIteration(run.index, run.emails, to_update)]
    /\ UNCHANGED <<rows, clock, last, txn, batch, direct>>

\* one iteration of the for loop of step 4: db.insert_or_update_email(email)
UpdateDatabase(fault) ==
    /\ run.pc = "update"
    /\ LET email == run.emails_to_update[run.writes + 1]
       IN \E existing \in Fetched(rows, email.id) :
            /\ rows' = UpsertRows(rows, existing, email, clock, fault)
            /\ run' = [run EXCEPT
                 !.writes = @ + 1,
                 !.pc = IF UpsertOutcome(rows, existing, email, clock, fault) = "raised"
                        THEN "crashed"
                        ELSE IF run.writes + 1 = Len(run.emails_to_update)
                             THEN "done" ELSE "update"]
    /\ UNCHANGED <<clock, last, txn, batch, direct>>

NextRun ==
    \/ Tick(FALSE)
    \/ ConstructRuleEngine
    \/ \E f \in CallFaults : LoadEmails(f)
    \/ ProcessEmail
    \/ \E f \in Faults : UpdateDatabase(f)

SpecRun == RunInit /\ [][NextRun]_vars

----------------------------------------------------------------------------
(* Direct calls of the validator, the engine and execute_action, as the tests *)
(* make them: direct holds the arguments and the result of the last call.    *)

NoDirectCall == [op |-> "none"]

DirectInit ==
    /\ rows = {}
    /\ clock = 0
    /\ last = NoCall
    /\ txn = IdleTxn
    /\ batch = 0
    /\ run = 0
    /\ direct = NoDirectCall

\* a rule whose condition and action have no key at all
EmptyItemsRule ==
    Rule(Word("empty"), Text(<<"a", "l", "l">>),
         Array(<<Condition(NoWord, NoWord, NoText, NoWord)>>),
         Array(<<Action(NoWord, NoText)>>))

\* a rule with one condition more than MAX_CONDITIONS, the first one invalid
TooManyConditionsRule ==
    Rule(Word("many"), Text(<<"a", "l", "l">>),
         Array([i \in 1..(MAX_CONDITIONS + 1) |->
                  IF i = 1 THEN Condition(Word("sender"), Word("contains"), Text(<<"a">>), NoWord)
                  ELSE SubjectContainsA]),
         Array(<<MarkAsRead>>))

\* conditions that break one requirement each, and some that break none
SingleConditions ==
    {Condition(NoWord, Word("contains"), Text(<<"a">>), NoWord),
     Condition(Word("subject"), NoWord, Text(<<"a">>), NoWord),
     Condition(Word("subject"), Word("contains"), NoText, NoWord),
     Condition(Word("sender"), Word("contains"), Text(<<"a">>), NoWord),
     Condition(Word("subject"), Word("less_than"), Text(<<"1">>), Word("days")),
     Condition(Word("message"), Word("does_not_equal"), Text(<<>>), NoWord),
     Condition(Word("received_date"), Word("equals"), Text(<<"1">>), Word("days")),
     Condition(Word("received_date"), Word("less_than"), Text(<<"1">>), NoWord),
     Condition(Word("received_date"), Word("less_than"), Text(<<"1">>), Word("weeks")),
     Condition(Word("received_date"), Word("greater_than"), Text(<<"x">>), Word("days")),
     Condition(Word("received_date"), Word("greater_than"), Text(<<"0">>), Word("days")),
     Condition(Word("received_date"), Word("less_than"), Text(<<"-", "5">>), Word("days")),
     Condition(Word("received_date"), Word("greater_than"), Text(<<" ", "2">>), Word("months"))}

\* a valid rule but for the condition it is given after a valid one
RuleWith(condition) ==
    Rule(Word("single"), Text(<<"a", "l", "l">>), Array(<<SubjectContainsA, condition>>),
         Array(<<MarkAsRead>>))

\* the documents given to validate_rules_file
ValidatorDocs ==
    Docs \cup {Document("rules_array", <<ReadRule, RuleWith(c)>>) : c \in SingleConditions}
         \cup {Document("rules_array", rules) :
                 rules \in {<<EmptyItemsRule>>, <<BadRule, EmptyItemsRule>>,
                            <<ReadRule, BadRule>>, <<TooManyConditionsRule>>,
                            <<ConflictRule, BadRule>>}}

\* validator.validate_rules_file(rules_file)
CallValidateRulesFile(doc) ==
    /\ direct = NoDirectCall
    /\ direct' = [op |-> "validate_rules_file", doc |-> doc,
                  result |-> ValidateRulesFile(doc)]
    /\ UNCHANGED <<rows, clock, last, txn, batch, run>>

\* the longest rule set given to a directly constructed engine
MaxRuleSet == 3

ArchiveRule ==
    Rule(Word("archive"), Text(<<"A", "N", "Y">>), Array(<<SubjectContainsA>>),
         Array(<<MoveTo(<<"D", "o", "n", "e">>), MarkAsRead>>))

RuleSets == UNION {[1..n -> {ReadRule, MoveRule, ArchiveRule}] : n \in 1..MaxRuleSet}

\* the rules files of the directly constructed engines
EngineDocs ==
    Docs \cup {Document("rules_array", rules) : rules \in RuleSets}

\* the emails of the direct calls: dicts as the tests build them
DirectEmails ==
    { Snapshot("e1", <<"x">>, <<"a">>, <<"m">>, DateAt(1), PyList(<<INBOX, UNREAD>>)),
      Snapshot("e2", <<"X", " ">>, <<" ", "B", "A">>, <<"m">>, DateText(0), PyList(<<INBOX>>)),
      Snapshot("e3", <<"y">>, <<"b", "a">>, <<"m">>, InvalidDate, PyList(<<>>)),
      [id |-> "e4", from |-> <<"x">>, labels |-> PyList(<<INBOX>>)],
      Snapshot("e5", <<"z">>, <<"c">>, <<"m">>, DateAt(1), PyList(<<INBOX>>)) }

\* whether RuleEngine(rules_file) returns an engine
Constructs(doc) ==
    /\ ValidateRulesFile(doc).result # "raise"
    /\ LoadRules(doc).kind # "rules_unsized"

\* engine = RuleEngine(rules_file); engine.evaluate_rules(email): iterating over
\* a str or a dict held as self.rules raises TypeError at rule["predicate"]
CallEvaluateRules(doc, email) ==
    /\ direct = NoDirectCall
    /\ Constructs(doc)
    /\ direct' = [op |-> "evaluate_rules", doc |-> doc, rules |-> LoadRules(doc),
                  email |-> email, now |-> clock,
                  raised |-> LoadRules(doc).kind = "rules_sized",
                  result |-> IF LoadRules(doc).kind = "rules_array"
                             THEN EvaluateRules(LoadRules(doc).rules, email, clock)
                             ELSE <<>>]
    /\ UNCHANGED <<rows, clock, last, txn, batch, run>>

\* engine.evaluate_rules(email) once more, on the engine and the email dict of
\* the call before, at whatever the clock reads by then; evaluate_rules assigns
\* to neither self.rules nor email
CallEvaluateRulesAgain ==
    /\ direct.op = "evaluate_rules"
    /\ direct.rules.kind = "rules_array"
    /\ direct' = [op |-> "evaluate_rules_again", first |-> direct,
                  rules |-> direct.rules, email |-> direct.email, now |-> clock,
                  result |-> EvaluateRules(direct.rules.rules, direct.email, clock)]
    /\ UNCHANGED <<rows, clock, last, txn, batch, run>>

\* the longest condition list of a directly evaluated rule
MaxConditionList == 2

RulePredicates ==
    {<<"a", "l", "l">>, <<"A", "L", "L">>, <<"A", "n", "y">>, <<"a", "n", "Y">>,
     <<"s", "o", "m", "e">>, <<"a", "l", "l", " ">>}

SubjectLacksBlank ==
    Condition(Word("subject"), Word("does_not_contain"), Text(<<" ", "\t">>), NoWord)

ConditionLists ==
    UNION {[1..n -> {SubjectContainsA, FromEqualsX, ReceivedLastDay, SubjectLacksBlank}] :
             n \in 0..MaxConditionList}

\* the rules given to evaluate_rule
DirectRules ==
    {Rule(Word("r"), Text(p), Array(c), Array(<<MarkAsRead>>)) :
        p \in RulePredicates, c \in ConditionLists}

\* engine.evaluate_rule(rule, email)
CallEvaluateRule(rule, email) ==
    /\ direct = NoDirectCall
    /\ direct' = [op |-> "evaluate_rule", rule |-> rule, email |-> email, now |-> clock,
                  result |-> EvaluateRule(rule, email, clock)]
    /\ UNCHANGED <<rows, clock, last, txn, batch, run>>

\* the values given to _evaluate_string_condition
EmailValues ==
    {PyNone} \cup {PyStr(s) : s \in {<<>>, <<"a">>, <<"A">>, <<" ", "a", " ">>, <<"a", "b">>,
                                      <<"b">>, <<" ">>}}

ConditionValues ==
    {PyNone} \cup {PyStr(s) : s \in {<<>>, <<" ">>, <<"\t", " ">>, <<"a">>, <<"A", " ">>,
                                      <<"\n", "a">>, <<"b">>, <<"A", "B">>}}

StringPredicates == STRING_PREDICATES \cup {"matches"}

\* engine._evaluate_string_condition(email_value, predicate, condition_value)
CallEvaluateStringCondition(email_value, predicate, condition_value) ==
    /\ direct = NoDirectCall
    /\ direct' = [op |-> "_evaluate_string_condition", email_value |-> email_value,
                  predicate |-> predicate, condition_value |-> condition_value,
                  result |-> EvaluateStringConditionPy(email_value, predicate,
                                                       condition_value)]
    /\ UNCHANGED <<rows, clock, last, txn, batch, run>>

\* the day numbers of the dates given to _evaluate_date_condition: around the
\* thresholds of 1 and 2 days and of 1 and 2 months before the clock values,
\* and the ages of 3, 10, 20, 40 and 70 days of the unit tests
DateDays == {-70, -61, -60, -59, -40, -31, -30, -29, -28, -20, -10}
            \cup (-3..(MaxClock + 1))

EmailDates ==
    {NoDate, InvalidDate} \cup {DateAt(d) : d \in DateDays}
    \cup {DateText(d) : d \in {-30, -1, 0}} \cup {AwareDate(d) : d \in {-30, -10, -1, 0}}

DatePredicates == DATE_PREDICATES \cup {"equals"}

\* the values of the conditions: 800000 days reach back beyond datetime.min
DateValues == {<<"1">>, <<" ", "2">>, <<"2">>, <<"7">>, <<"3", "0">>, <<"-", "1">>, <<"x">>,
               <<"8", "0", "0", "0", "0", "0">>}

DateUnits == VALID_DATE_UNITS \cup {"weeks"}

\* engine._evaluate_date_condition(email_date, predicate, value, unit)
CallEvaluateDateCondition(email_date, predicate, value, unit) ==
    /\ direct = NoDirectCall
    /\ direct' = [op |-> "_evaluate_date_condition", email_date |-> email_date,
                  predicate |-> predicate, value |-> value, unit |-> unit, now |-> clock,
                  result |-> EvaluateDateCondition(email_date, predicate, value, unit, clock)]
    /\ UNCHANGED <<rows, clock, last, txn, batch, run>>

\* the longest action list given to the loop over execute_action
MaxActionList == 2

\* the actions of the lists: moves to two user labels, to a label
\* execute_action turns to upper case and to a system label, and a mark
ListedActions ==
    {MoveTo(<<"D", "o", "n", "e">>), MoveTo(<<"L", "a", "t", "e", "r">>),
     MoveTo(<<"t", "r", "a", "s", "h">>), MoveTo(STARRED), MarkAsRead}

ActionLists ==
    UNION {[1..n -> ListedActions] : n \in 1..MaxActionList}

\* what the Gmail client returns for each action of a list
SuccessLists(actions) == [DOMAIN actions -> BOOLEAN]

\* the emails that have a label list
LabelledEmails == {email \in DirectEmails : email.labels.py = "list"}

\* for action in actions: execute_action(gmail, email, action), as in main
CallExecuteActions(email, actions, success) ==
    /\ direct = NoDirectCall
    /\ direct' = [op |-> "execute_action", email |-> email, actions |-> actions,
                  success |-> success,
                  after |-> ExecuteActions(email, actions, success)]
    /\ UNCHANGED <<rows, clock, last, txn, batch, run>>

\* GmailClient.move_message works on the label ids of Gmail.  A label of the
\* mailbox, as users().labels().list returns it:
Label(id, name, type) == [id |-> id, name |-> name, type |-> type]

SENT == <<"S", "E", "N", "T">>

DRAFT == <<"D", "R", "A", "F", "T">>

TRASH == <<"T", "R", "A", "S", "H">>

SPAM == <<"S", "P", "A", "M">>

location_labels == {INBOX, SENT, DRAFT, TRASH, SPAM}

\* a label of Gmail's own that is neither a location nor in system_labels
CHAT == <<"C", "H", "A", "T">>

\* the id Gmail gives to a label a user or the client creates
LabelId(n) == <<"L", "a", "b", "e", "l", "_", n>>

Done == <<"D", "o", "n", "e">>

Later == <<"L", "a", "t", "e", "r">>

\* Gmail's own labels have their name as id
SystemLabelInfo ==
    {Label(l, l, "system") : l \in location_labels \cup system_labels \cup {CHAT}}

\* the mailboxes: Gmail's labels and some of the user's
Mailboxes ==
    {SystemLabelInfo \cup users :
        users \in SUBSET {Label(LabelId("1"), Done, "user"), Label(LabelId("2"), Later, "user")}}

\* how the service behaves: every request fails ("error"), or requests work
\* and a modify that adds and removes one label adds it, removes it or is
\* rejected
GmailBehaviours == {"adds", "removes", "rejects", "error"}

NoLabelId == <<>>

\* _get_or_create_label(label_name): the id of the label with that name,
\* created when the mailbox has none; None when the request fails
GetOrCreateLabel(mailbox, label_name, api) ==
    IF api = "error" THEN [id |-> NoLabelId, mailbox |-> mailbox]
    ELSE IF \E l \in mailbox : l.name = label_name
    THEN [id |-> (CHOOSE l \in mailbox : l.name = label_name).id, mailbox |-> mailbox]
    ELSE [id |-> LabelId("3"),
          mailbox |-> mailbox \cup {Label(LabelId("3"), label_name, "user")}]

\* labels_to_remove of move_message
LabelsToRemove(label_info, current_labels, destination_id) ==
    {label_id \in current_labels :
        \/ label_id \in location_labels
        \/ \E l \in label_info :
              l.id = label_id /\ l.type = "user" /\ label_id # destination_id}

\* move_message(message_id, destination_label) on a message that carries
\* current_labels: the value returned, the label ids of the message and
\* the labels of the mailbox afterwards
MoveMessage(mailbox, current_labels, destination_label, api) ==
    LET destination == GetOrCreateLabel(mailbox, destination_label, api)
        labels_to_remove ==
            LabelsToRemove(destination.mailbox, current_labels, destination.id)
    IN  IF api = "error" \/ (api = "rejects" /\ destination.id \in labels_to_remove)
        THEN [result |-> FALSE, labels |-> current_labels,
              mailbox |-> destination.mailbox, destination_id |-> destination.id]
        ELSE [result |-> TRUE,
              labels |-> IF api = "removes" /\ destination.id \in labels_to_remove
                         THEN current_labels \ labels_to_remove
                         ELSE (current_labels \ labels_to_remove) \cup {destination.id},
              mailbox |-> destination.mailbox, destination_id |-> destination.id]

\* the label lists of the snapshots that are moved, as fetch_emails took them
\* from the labelIds of the messages
MovedLabelLists ==
    {<<>>, <<INBOX, UNREAD>>, <<INBOX, LabelId("1")>>, <<TRASH, STARRED>>,
     <<LabelId("2"), IMPORTANT, LabelId("1")>>, <<SENT, CHAT>>}

\* a message carries labels of its mailbox only
MovedEmails(mailbox) ==
    {Snapshot("e1", <<"x">>, <<"a">>, <<"m">>, DateAt(1), PyList(l)) :
        l \in {m \in MovedLabelLists : Elements(m) \subseteq {i.id : i \in mailbox}}}

MoveActions ==
    {MoveTo(Done), MoveTo(Later), MoveTo(<<"t", "r", "a", "s", "h">>), MoveTo(STARRED)}

\* execute_action with a move_message action on an email whose message
\* carries the labels of the snapshot
CallMoveMessage(mailbox, email, action, api) ==
    /\ direct = NoDirectCall
    /\ LET remote == MoveMessage(mailbox, Elements(email.labels.items),
                                 Destination(action), api)
       IN direct' = [op |-> "move_message", mailbox |-> mailbox, email |-> email,
                     action |-> action, api |-> api, remote |-> remote,
                     local |-> ExecuteAction(email, action, remote.result)]
    /\ UNCHANGED <<rows, clock, last, txn, batch, run>>

\* the caller is done with the result of the call
DirectReturn ==
    /\ direct # NoDirectCall
    /\ direct' = NoDirectCall
    /\ UNCHANGED <<rows, clock, last, txn, batch, run>>

\* the inputs to choose from: none while a call is outstanding
WhenIdle(inputs) == IF direct = NoDirectCall THEN inputs ELSE {}

NextDirect ==
    \/ Tick(FALSE)
    \/ DirectReturn
    \/ \E doc \in WhenIdle(ValidatorDocs) : CallValidateRulesFile(doc)
    \/ \E doc \in WhenIdle(EngineDocs), email \in DirectEmails : CallEvaluateRules(doc, email)
    \/ CallEvaluateRulesAgain
    \/ \E rule \in WhenIdle(DirectRules), email \in DirectEmails : CallEvaluateRule(rule, email)
    \/ \E v \in WhenIdle(EmailValues), p \in StringPredicates, c \in ConditionValues :
          CallEvaluateStringCondition(v, p, c)
    \/ \E d \in WhenIdle(EmailDates), p \in DatePredicates, v \in DateValues, u \in DateUnits :
          CallEvaluateDateCondition(d, p, v, u)
    \/ \E email \in WhenIdle(LabelledEmails), actions \in ActionLists :
          \E success \in SuccessLists(actions) : CallExecuteActions(email, actions, success)
    \/ \E mailbox \in WhenIdle(Mailboxes), action \in MoveActions, api \in GmailBehaviours :
          \E email \in MovedEmails(mailbox) : CallMoveMessage(mailbox, email, action, api)

SpecDirect == DirectInit /\ [][NextDirect]_vars

----------------------------------------------------------------------------
(* Claims about the sequential store *)

\* the label set of a Python list of labels
LabelSet(v) == {v.items[i] : i \in DOMAIN v.items}

IsList(v) == v.py = "list"

\* C1: after any sequence of non-interleaved insert_or_update_email calls, each
\* id has at most one row with is_current = TRUE.
C1_AtMostOneCurrentPerId ==
    \A id \in EmailIds : Cardinality({r \in rows : r.email_id = id /\ r.is_current}) <= 1

\* C1 witness: both ids have been superseded at least once and each has one current row
C1_Witness ==
    \A id \in EmailIds :
        /\ Cardinality({r \in rows : r.email_id = id}) >= 2
        /\ Cardinality({r \in rows : r.email_id = id /\ r.is_current}) = 1

WellFormedCallOn(r) ==
    /\ last'.op = "upsert" /\ last'.fault = "none"
    /\ r \in rows /\ r.email_id = last'.email.id /\ r.is_current
    /\ IsList(JsonLoads(r.labels)) /\ IsList(last'.email.labels)

\* C4: every call whose label set differs from the current label set closes the
\* current row and appends one new current row, the last of the history; a call
\* that changes only untracked fields creates no version.
C4_OneVersionPerLabelChange ==
    [][\A r \in rows : WellFormedCallOn(r) =>
         IF LabelSet(JsonLoads(r.labels)) # LabelSet(last'.email.labels)
         THEN /\ Cardinality(HistoryRows(rows', r.email_id))
                    = Cardinality(HistoryRows(rows, r.email_id)) + 1
              /\ \E c \in rows' :
                    /\ c = [r EXCEPT !.is_current = FALSE, !.valid_to = c.valid_to]
                    /\ c.valid_to # NullTime
              /\ \E n \in rows' \ rows :
                    /\ n.email_id = r.email_id /\ n.is_current /\ n.valid_to = NullTime
                    /\ LabelSet(JsonLoads(n.labels)) = LabelSet(last'.email.labels)
                    /\ \A h \in HistoryRows(rows', r.email_id) : h.valid_from <= n.valid_from
         ELSE HistoryRows(rows', r.email_id) = HistoryRows(rows, r.email_id)]_vars

\* C5: a call with the current label set and another subject adds no version,
\* and the current-state queries then return the new subject.
C5_LatestUntrackedFieldsExposed ==
    [][\A r \in rows :
         (/\ WellFormedCallOn(r)
          /\ LabelSet(JsonLoads(r.labels)) = LabelSet(last'.email.labels)
          /\ r.subject # last'.email.subject)
         => /\ Cardinality(HistoryRows(rows', r.email_id))
                 = Cardinality(HistoryRows(rows, r.email_id))
            /\ \A e \in GetAllEmails(rows') :
                 e.id = r.email_id => e.subject = last'.email.subject
            /\ \A q \in EmailByIdRows(rows', r.email_id) :
                 RowToEmail(q).subject = last'.email.subject]_vars

\* C6: after insert_or_update_email(s), get_email_by_id(s.id) returns a snapshot
\* whose labels equal s.labels as a set (s with a list of labels, no database
\* fault, and no current row of s.id holding JSON null).
C6_RoundTrip ==
    (/\ last.op = "upsert" /\ last.fault = "none" /\ IsList(last.email.labels)
     /\ \A r \in rows : r.email_id = last.email.id => IsList(JsonLoads(r.labels)))
    => /\ EmailByIdRows(rows, last.email.id) # {}
       /\ \A r \in EmailByIdRows(rows, last.email.id) :
             LabelSet(RowToEmail(r).labels) = LabelSet(last.email.labels)

----------------------------------------------------------------------------
(* Claims about concurrent calls *)

\* C2: when insert_or_update_email calls for the same id run concurrently, no
\* interleaving reaches a state with two is_current = TRUE rows for that id.
C2_NoTwoCurrentUnderConcurrency ==
    \A id \in EmailIds : Cardinality({r \in rows : r.email_id = id /\ r.is_current}) <= 1

----------------------------------------------------------------------------
(* Claims about insert_emails_batch *)

\* C8: when the upsert of one element fails (invalid data, a failed transaction
\* or no connection), every other element of the batch is still processed and
\* the valid ones are stored.
C8_BatchIsolatesFailures ==
    batch.pc \in {"returned", "raised"} =>
        /\ Len(batch.done) = Len(batch.emails)
        /\ \A k \in 1..Len(batch.emails) :
             batch.emails[k].received_date.kind # "invalid_text"
             /\ (k \in DOMAIN batch.done => batch.done[k] = "committed")
             => \E r \in rows : r.email_id = batch.emails[k].id

----------------------------------------------------------------------------
(* Claims about the processing run *)

\* C9: whenever validation of the rules source records an error, the structural
\* errors included, constructing the RuleEngine fails: no engine is constructed
\* and no email is evaluated from that source.
C9_RecordedErrorStopsConstruction ==
    (run.pc # "start" /\ run.errors # <<>>) =>
        /\ run.pc = "exit"
        /\ run.engine = "none"
        /\ run.evaluated = 0

\* a rule of the document has both mark_as_read and mark_as_unread among its actions
HasReadUnreadConflict(doc) ==
    /\ doc.kind = "rules_array"
    /\ \E i \in DOMAIN doc.rules :
         /\ doc.rules[i].actions.tag = "list"
         /\ \E j, k \in DOMAIN doc.rules[i].actions.items :
              /\ doc.rules[i].actions.items[j].type = Word("mark_as_read")
              /\ doc.rules[i].actions.items[k].type = Word("mark_as_unread")

\* C10: in a run whose rule set has a rule with both mark_as_read and
\* mark_as_unread among its actions, construction of the engine ends the run
\* with validation errors: no engine, no email evaluated, no call to the Gmail
\* client and no call to the store.
C10_ConflictStopsRun ==
    HasReadUnreadConflict(run.doc) =>
        /\ run.pc \in {"start", "exit"}
        /\ run.pc = "exit" => run.errors # <<>>
        /\ run.engine = "none"
        /\ run.evaluated = 0
        /\ run.calls = <<>>
        /\ run.writes = 0

\* a run over stored emails was stopped by the read/unread conflict error
C10_Witness ==
    /\ HasReadUnreadConflict(run.doc)
    /\ run.pc = "exit"
    /\ rows # {}
    /\ \E i \in DOMAIN run.errors : run.errors[i].code = "read_unread_conflict"

----------------------------------------------------------------------------
(* Claims about direct calls *)

\* the required keys that are missing in a document: of its rules, of their
\* conditions and of their actions
MissingKeys(doc) ==
    UNION {
      {Err("rule_missing_name", r, 0) : x \in (IF doc.rules[r].name.has THEN {} ELSE {1})}
      \cup {Err("rule_missing_predicate", r, 0) : x \in (IF doc.rules[r].predicate.has THEN {} ELSE {1})}
      \cup {Err("rule_missing_conditions", r, 0) : x \in (IF doc.rules[r].conditions.tag = "absent" THEN {1} ELSE {})}
      \cup {Err("rule_missing_actions", r, 0) : x \in (IF doc.rules[r].actions.tag = "absent" THEN {1} ELSE {})}
      \cup {Err("condition_missing_field", r, i) :
              i \in {j \in DOMAIN doc.rules[r].conditions.items :
                       ~doc.rules[r].conditions.items[j].field.has}}
      \cup {Err("condition_missing_predicate", r, i) :
              i \in {j \in DOMAIN doc.rules[r].conditions.items :
                       ~doc.rules[r].conditions.items[j].predicate.has}}
      \cup {Err("condition_missing_value", r, i) :
              i \in {j \in DOMAIN doc.rules[r].conditions.items :
                       ~doc.rules[r].conditions.items[j].value.has}}
      \cup {Err("action_missing_type", r, i) :
              i \in {j \in DOMAIN doc.rules[r].actions.items :
                       ~doc.rules[r].actions.items[j].type.has}}
      : r \in DOMAIN doc.rules}

\* the conditions and the actions of a document that break a check of their own
InvalidItems(doc) ==
    UNION {
      {<<"condition", r, i>> :
          i \in {j \in DOMAIN doc.rules[r].conditions.items :
                   ValidateCondition(doc.rules[r].conditions.items[j], r, j) # <<>>}}
      \cup {<<"action", r, i>> :
              i \in {j \in DOMAIN doc.rules[r].actions.items :
                       ValidateAction(doc.rules[r].actions.items[j], r, j) # <<>>}}
      : r \in DOMAIN doc.rules}

ConditionCodes ==
    {"condition_missing_field", "condition_missing_predicate", "condition_missing_value",
     "invalid_field", "invalid_string_predicate", "invalid_date_predicate",
     "date_missing_unit", "invalid_unit", "date_value_not_numeric",
     "date_value_not_positive"}

ActionCodes ==
    {"action_missing_type", "invalid_action", "move_missing_destination",
     "move_empty_destination"}

\* C11: for a document with a 'rules' array the errors left by
\* validate_rules_file hold an entry for every missing required key of every
\* rule, condition and action, and an entry for every invalid condition and
\* every invalid action.
C11_EveryViolatedCheckReported ==
    (direct.op = "validate_rules_file" /\ direct.doc.kind = "rules_array") =>
        /\ \A v \in MissingKeys(direct.doc) : v \in Elements(direct.result.errors)
        /\ \A x \in InvalidItems(direct.doc) :
             \E e \in Elements(direct.result.errors) :
                /\ e.rule = x[2] /\ e.item = x[3]
                /\ e.code \in (IF x[1] = "condition" THEN ConditionCodes ELSE ActionCodes)

\* the rules of a rule set that match an email
Matching(rules, email, now) == {i \in DOMAIN rules : EvaluateRule(rules[i], email, now)}

\* the number of actions of the rules of M before rule i
RECURSIVE ActionsBefore(_, _, _)
ActionsBefore(rules, M, i) ==
    IF i = 1 THEN 0
    ELSE ActionsBefore(rules, M, i - 1)
         + (IF i - 1 \in M THEN Len(rules[i - 1].actions.items) ELSE 0)

\* C12: evaluate_rules returns the action lists of the matching rules one after
\* the other, in rule order and each in its own order, whole and not
\* deduplicated, and nothing else.
C12_ActionsOfMatchingRulesInOrder ==
    (direct.op = "evaluate_rules" /\ direct.rules.kind = "rules_array") =>
        LET rules == direct.rules.rules
            M == Matching(rules, direct.email, direct.now)
        IN  /\ ~direct.raised
            /\ Len(direct.result) = ActionsBefore(rules, M, Len(rules) + 1)
            /\ \A i \in M : \A j \in DOMAIN rules[i].actions.items :
                 direct.result[ActionsBefore(rules, M, i) + j] = rules[i].actions.items[j]

\* two matching rules with different moves and a repeated action around a rule
\* that does not match
C12_Witness ==
    /\ direct.op = "evaluate_rules"
    /\ direct.rules.kind = "rules_array"
    /\ direct.rules.rules = <<MoveRule, ReadRule, ArchiveRule>>
    /\ Matching(direct.rules.rules, direct.email, direct.now) = {2, 3}
    /\ direct.result = <<MarkAsRead, MoveTo(<<"D", "o", "n", "e">>), MarkAsRead>>

\* the word w in any letter case, letter by letter
SpelledAs(s, lower, upper) ==
    /\ Len(s) = Len(lower)
    /\ \A i \in DOMAIN s : s[i] \in {lower[i], upper[i]}

\* the conditions of a rule that hold for an email
TrueConditions(rule, email, now) ==
    {i \in DOMAIN rule.conditions.items :
        EvaluateCondition(rule.conditions.items[i], email, now)}

\* C13: evaluate_rule accepts a rule whose predicate spells 'all' in any letter
\* case exactly when all its conditions hold, a rule whose predicate spells
\* 'any' exactly when at least one holds, and no rule with another predicate.
C13_AllAnyPredicate ==
    direct.op = "evaluate_rule" =>
        LET predicate == direct.rule.predicate.v
            held == TrueConditions(direct.rule, direct.email, direct.now)
        IN  direct.result =
              IF SpelledAs(predicate, <<"a", "l", "l">>, <<"A", "L", "L">>)
              THEN held = DOMAIN direct.rule.conditions.items
              ELSE IF SpelledAs(predicate, <<"a", "n", "y">>, <<"A", "N", "Y">>)
              THEN held # {}
              ELSE FALSE

\* an upper-case ALL rule with one condition that holds and one that does not
C13_Witness ==
    /\ direct.op = "evaluate_rule"
    /\ direct.rule.predicate.v = <<"A", "L", "L">>
    /\ Len(direct.rule.conditions.items) = 2
    /\ Cardinality(TrueConditions(direct.rule, direct.email, direct.now)) = 1
    /\ ~direct.result

\* a str that is empty or made of whitespace only
Blank(s) == \A i \in DOMAIN s : s[i] \in {" ", "\t", "\n", "\r"}

\* a condition on a string field whose value is blank
BlankStringCondition(condition) ==
    /\ condition.field.v \in SUPPORTED_STRING_FIELDS
    /\ Blank(condition.value.v)

\* C14: a string condition whose value is empty or whitespace only is false for
\* every email value and every predicate, and a rule whose conditions are all
\* of that kind matches no email.
C14_BlankValueNeverMatches ==
    /\ (/\ direct.op = "_evaluate_string_condition"
        /\ direct.condition_value.py = "str"
        /\ Blank(direct.condition_value.items)) => ~direct.result
    /\ (/\ direct.op = "evaluate_rule"
        /\ direct.rule.conditions.items # <<>>
        /\ \A i \in DOMAIN direct.rule.conditions.items :
              BlankStringCondition(direct.rule.conditions.items[i])) => ~direct.result

\* does_not_equal with a whitespace-only value, which differs from the email value
C14_Witness ==
    /\ direct.op = "_evaluate_string_condition"
    /\ direct.predicate = "does_not_equal"
    /\ direct.condition_value = PyStr(<<"\t", " ">>)
    /\ direct.email_value = PyStr(<<"a">>)
    /\ ~direct.result

\* a value in other letter cases and with whitespace around it
Variants(value) ==
    IF value.py = "None" THEN {value}
    ELSE {PyStr(s) : s \in {value.items, Upper(value.items), Lower(value.items),
                            <<" ">> \o value.items, value.items \o <<"\t", " ">>,
                            <<"\n">> \o Upper(value.items) \o <<" ">>}}

\* C15: the result of a string condition does not change when the email value
\* or the condition value is written in another letter case or with whitespace
\* around it; an email value that is None, and a key the email does not have,
\* count as the empty string.
C15_CaseAndPaddingInsensitive ==
    /\ direct.op = "_evaluate_string_condition" =>
         /\ \A v \in Variants(direct.email_value), c \in Variants(direct.condition_value) :
               EvaluateStringConditionPy(v, direct.predicate, c) = direct.result
         /\ direct.email_value = PyNone =>
               direct.result = EvaluateStringConditionPy(PyStr(<<>>), direct.predicate,
                                                         direct.condition_value)
    /\ (/\ direct.op = "evaluate_rule"
        /\ direct.rule.predicate.v = <<"a", "l", "l">>
        /\ Len(direct.rule.conditions.items) = 1
        /\ direct.rule.conditions.items[1].field.v \in SUPPORTED_STRING_FIELDS
        /\ direct.rule.conditions.items[1].field.v \notin DOMAIN direct.email) =>
         direct.result =
            EvaluateStringConditionPy(PyStr(<<>>), direct.rule.conditions.items[1].predicate.v,
                                      PyStr(direct.rule.conditions.items[1].value.v))

\* a padded lower-case email value equals a padded upper-case condition value
C15_Witness ==
    /\ direct.op = "_evaluate_string_condition"
    /\ direct.predicate = "equals"
    /\ direct.email_value = PyStr(<<" ", "a", " ">>)
    /\ direct.condition_value = PyStr(<<"A", " ">>)
    /\ direct.result

\* a call of _evaluate_date_condition with a date, a numeric value and a valid unit
DatedCall ==
    /\ direct.op = "_evaluate_date_condition"
    /\ direct.email_date.kind \in {"datetime", "text", "aware"}
    /\ ParseInt(direct.value).ok
    /\ direct.unit \in VALID_DATE_UNITS

\* the age of the email of a call, in days
Age == direct.now - direct.email_date.t

\* the number of days a call's value and unit stand for
Days == IF direct.unit = "months" THEN 30 * ParseInt(direct.value).n
        ELSE ParseInt(direct.value).n

\* the threshold now - D of a call is a datetime: it is not before
\* datetime.min nor after datetime.max
ThresholdExists == DatetimeInRange(direct.now - Days)

DateCallOf(predicate, value, unit) ==
    /\ DatedCall
    /\ direct.predicate = predicate
    /\ direct.value = value
    /\ direct.unit = unit

\* C17: 'greater_than 7 days' matches an email received 3 days ago and does
\* not match an email received 10 days ago.
C17_GreaterThanSevenDays ==
    DateCallOf("greater_than", <<"7">>, "days") =>
        /\ Age = 3 => direct.result
        /\ Age = 10 => ~direct.result

\* C18: 'less_than N days' (30 * N days for months) matches an email older
\* than that and does not match a younger one: less_than 30 days matches a
\* 40-day-old email and not a 20-day-old one, less_than 2 months matches a
\* 70-day-old email and not a 30-day-old one, less_than 7 days matches a
\* timezone-aware date 10 days back.
C18_LessThanMatchesOlder ==
    /\ DateCallOf("less_than", <<"3", "0">>, "days") =>
          /\ Age = 40 => direct.result
          /\ Age = 20 => ~direct.result
    /\ DateCallOf("less_than", <<"2">>, "months") =>
          /\ Age = 70 => direct.result
          /\ Age = 30 => ~direct.result
    /\ DateCallOf("less_than", <<"7">>, "days") /\ direct.email_date.kind = "aware" =>
          (Age = 10 => direct.result)

\* the email dict when the action at position i of the call's list is executed
EmailBefore(i) ==
    ExecuteActions(direct.email, SubSeq(direct.actions, 1, i - 1),
                   SubSeq(direct.success, 1, i - 1))

\* the action at position i of the call's list is a move that returned True
MoveSucceeded(i) ==
    /\ direct.actions[i].type.v = "move_message"
    /\ ExecuteAction(EmailBefore(i), direct.actions[i], direct.success[i]).result

\* C19: after two moves with different destinations, executed in order on
\* one email and both successful, the email's labels hold both destinations.
C19_DestinationsAccumulate ==
    direct.op = "execute_action" =>
        \A i, j \in DOMAIN direct.actions :
            /\ i < j
            /\ MoveSucceeded(i)
            /\ MoveSucceeded(j)
            /\ Destination(direct.actions[i]) # Destination(direct.actions[j])
            => /\ Destination(direct.actions[i]) \in Elements(direct.after.labels.items)
               /\ Destination(direct.actions[j]) \in Elements(direct.after.labels.items)

\* C20: evaluate_rules on a constructed engine returns an action list and
\* never raises, whatever rule set the engine holds and whatever the email; a
\* missing, null or unparsable received date and a non-numeric value make the
\* date condition false.
C20_EvaluateRulesNeverRaises ==
    /\ direct.op = "evaluate_rules" => ~direct.raised
    /\ direct.op = "_evaluate_date_condition"
       /\ (direct.email_date.kind \in {"none", "invalid_text"} \/ ~ParseInt(direct.value).ok)
       => ~direct.result

\* a second evaluate_rules call on the engine and email of a first one
SecondCall == direct.op = "evaluate_rules_again"

\* the rule set has a received_date condition
HasDateCondition(rules) ==
    \E i \in DOMAIN rules : \E j \in DOMAIN rules[i].conditions.items :
        rules[i].conditions.items[j].field.v = "received_date"

ValidFroms(db, id) == {r.valid_from : r \in HistoryRows(db, id)}

\* C22: every one of N successive calls for one id whose label set differs
\* from the current one adds a version, so N calls give N versions with
\* pairwise distinct valid_from, however little the clock moves between them.
C22_NoUpdateLost ==
    [][\A r \in rows :
         (WellFormedCallOn(r) /\ LabelSet(JsonLoads(r.labels)) # LabelSet(last'.email.labels))
         => /\ Cardinality(HistoryRows(rows', r.email_id))
                 = Cardinality(HistoryRows(rows, r.email_id)) + 1
            /\ Cardinality(ValidFroms(rows', r.email_id))
                 = Cardinality(HistoryRows(rows', r.email_id))]_vars

\* C23: the list get_all_emails returned to the run is ordered by received
\* date, latest first, and the emails without a received date come last, after
\* every email that has one.
C23_NullDatesLast ==
    run.pc \in {"loop", "update", "done", "crashed"} =>
        \A i, j \in DOMAIN run.emails :
            i < j =>
              /\ run.emails[i].received_date.kind = "none"
                    => run.emails[j].received_date.kind = "none"
              /\ (run.emails[i].received_date.kind # "none"
                  /\ run.emails[j].received_date.kind # "none")
                    => run.emails[i].received_date.t >= run.emails[j].received_date.t

\* what C24 asks of a condition, spelled out
ConditionAsRequired(c) ==
    /\ c.field.has /\ c.predicate.has /\ c.value.has
    /\ c.field.v \in {"from", "subject", "message", "received_date"}
    /\ c.field.v \in {"from", "subject", "message"} =>
          c.predicate.v \in {"contains", "does_not_contain", "equals", "does_not_equal"}
    /\ c.field.v = "received_date" =>
          /\ c.predicate.v \in {"less_than", "greater_than"}
          /\ c.unit.has /\ c.unit.v \in {"days", "months"}
          /\ ParseInt(c.value.v).ok /\ ParseInt(c.value.v).n > 0

\* validate_rules_file returned True and left no error
Accepted ==
    /\ direct.op = "validate_rules_file"
    /\ direct.result.result = "true"
    /\ direct.result.errors = <<>>

\* C24: validate_rules_file accepts a rule set only if every condition of
\* every rule has its three keys, names a supported field, has a string
\* predicate on a string field and, on received_date, a date predicate, a unit
\* of days or months and a value that reads as a positive integer.
C24_AcceptedConditionsAreValid ==
    Accepted =>
        \A i \in DOMAIN direct.doc.rules :
            /\ direct.doc.rules[i].conditions.tag = "list"
            /\ \A j \in DOMAIN direct.doc.rules[i].conditions.items :
                 ConditionAsRequired(direct.doc.rules[i].conditions.items[j])

\* an accepted rule set with a string condition and a date condition in months
C24_Witness ==
    /\ Accepted
    /\ \E i \in DOMAIN direct.doc.rules :
         \E j, k \in DOMAIN direct.doc.rules[i].conditions.items :
            /\ direct.doc.rules[i].conditions.items[j].field.v = "subject"
            /\ direct.doc.rules[i].conditions.items[k].field.v = "received_date"
            /\ direct.doc.rules[i].conditions.items[k].unit.v = "months"

\* the version of an id that follows row r: the one with the least valid_from
\* after r's
NextVersions(db, r) ==
    {n \in HistoryRows(db, r.email_id) :
        /\ n.valid_from > r.valid_from
        /\ \A o \in HistoryRows(db, r.email_id) :
              o.valid_from > r.valid_from => n.valid_from <= o.valid_from}

C26_HistoryAppendOnly ==
    [][/\ \A r \in rows : r.valid_to # NullTime => r \in rows'
       /\ \A id \in EmailIds :
            Cardinality(HistoryRows(rows', id)) >= Cardinality(HistoryRows(rows, id))]_vars

\* an id with two closed versions: the first was closed before the call that
\* closed the second, and the other id has been written as well
C26_Witness ==
    /\ Cardinality({r \in HistoryRows(rows, "e1") : r.valid_to # NullTime}) = 2
    /\ \E r \in HistoryRows(rows, "e1") : r.valid_to = 1 /\ r.valid_from = 0
    /\ HistoryRows(rows, "e2") # {}

\* the statistics are numbers, the versions are the current and the historical
\* ones, and the current versions, the ids and count_emails() agree
StatsAgree(db) ==
    LET stats == GetStats(db) IN
    /\ ~stats.current_versions.null
    /\ ~stats.historical_versions.null
    /\ stats.total_versions.n = stats.current_versions.n + stats.historical_versions.n
    /\ stats.current_versions.n = stats.unique_emails.n
    /\ stats.unique_emails = CountEmails(db)

\* C27: after any sequence of upserts get_stats gives total_versions =
\* current_versions + historical_versions and current_versions =
\* unique_emails = count_emails().
C27_StatsAgreeAfterUpserts ==
    last.op = "upsert" => StatsAgree(rows)

\* the labels of the mailbox that have the type
LabelsOfType(mailbox, type) == {l.id : l \in {m \in mailbox : m.type = type}}

\* what a successful move did to the message: the locations and the user
\* labels other than the destination are gone, the state labels stay, and
\* the destination is carried
MovedAsFolder ==
    LET before == Elements(direct.email.labels.items)
        after == direct.remote.labels
        d == direct.remote.destination_id
    IN  /\ \A l \in before \ {d} :
              l \in location_labels \cup LabelsOfType(direct.remote.mailbox, "user")
                  => l \notin after
        /\ \A l \in before :
              l \in LabelsOfType(direct.remote.mailbox, "system") \ location_labels
                  => l \in after
        /\ d \in after

\* C28: a successful move_message to d leaves the message without its
\* location labels and without its user labels other than d, with its state
\* labels and with d, and the snapshot execute_action updates ends with the
\* label set the mutator computed.
C28_SnapshotFollowsMove ==
    direct.op = "move_message" /\ direct.remote.result =>
        /\ MovedAsFolder
        /\ Elements(direct.local.email.labels.items) = direct.remote.labels

\* C29: insert_or_update_email is all-or-nothing: a call that fails leaves the
\* rows as they were before it, so that later calls find the store as if the
\* call had not been made, and no committed state has an id with rows and
\* without a current row.
C29_AllOrNothing ==
    [][/\ last'.op = "upsert" /\ last'.outcome # "committed" => rows' = rows
       /\ \A id \in EmailIds :
            HistoryRows(rows', id) # {} => SelectCurrent(rows', id) # {}]_vars

\* a call with another label set, at a time later than the current row's, was
\* rolled back on a database error, and the id has a closed and a current row
C29_Witness ==
    /\ last.op = "upsert" /\ last.fault = "db_error" /\ last.outcome = "rolled_back"
    /\ \E r \in SelectCurrent(rows, last.email.id) :
          /\ HasEmailChanged(r, last.email) = "changed"
          /\ CloseCurrentAllowed(rows, last.email.id, clock)
    /\ \E h \in HistoryRows(rows, last.email.id) : ~h.is_current

\* the version of the email the run started from: the runs start on tables
\* whose rows were stored at time 0
VersionAtStart(db, id) == {r \in HistoryRows(db, id) : r.valid_from = 0}

\* the run changed the label set of the email
ChangedByRun(email) ==
    \E o \in VersionAtStart(rows, email.id) :
        LabelSet(email.labels) # LabelSet(JsonLoads(o.labels))

\* C30: when a processing run finishes, the store's current row of every email
\* whose label set the executed actions changed holds the resulting label set,
\* in one new version, and the store has no new version of any other email.
C30_StoreFollowsRun ==
    run.pc = "done" =>
        \A i \in DOMAIN run.emails :
            IF ChangedByRun(run.emails[i])
            THEN /\ Cardinality(HistoryRows(rows, run.emails[i].id)) = 2
                 /\ \A r \in SelectCurrent(rows, run.emails[i].id) :
                       /\ r.valid_from # 0
                       /\ LabelSet(JsonLoads(r.labels)) = LabelSet(run.emails[i].labels)
            ELSE HistoryRows(rows, run.emails[i].id) = VersionAtStart(rows, run.emails[i].id)

====
